---- MODULE Spec2Model ----
(***************************************************************************)
(* Model of the REST API of the full-stack demo: Express routes under      *)
(* /api/v1/{contact,task,project}, the Zod validation middleware, the      *)
(* Drizzle services and the relational store (SQLite and Postgres/PGLite   *)
(* variants of the routes).  One action per route; an action is the whole  *)
(* middleware chain of the route followed by its handler, the service call *)
(* and the SQL statement with its constraints and referential actions.     *)
(*                                                                         *)
(* JSON values of a request are tagged records (S, N, NaN, JNull); a       *)
(* request body or a params/query object is a function from the keys that  *)
(* are present to their values.  A stored row holds plain strings and      *)
(* integers in its NOT NULL columns and a tagged value (JNull or N(n)) in  *)
(* its nullable foreign keys.  Free-text columns that no route reads back  *)
(* (phone, company, notes, description, joinedAt) and the                  *)
(* timestamps of Contact and Project rows are not stored in the model.     *)
(***************************************************************************)
EXTENDS Integers, Sequences, FiniteSets, TLC

VARIABLES
  variant,         \* which variant of the routes is deployed: "sqlite" or "pg"
  contacts,        \* rows of table Contact
  projects,        \* rows of table Project
  tasks,           \* rows of table Task
  projectMembers,  \* rows of table ProjectMember
  seq,             \* autoincrement / serial counters, one per table
  now,             \* the clock read by new Date()
  nodeEnv,         \* process.env.NODE_ENV
  pending,         \* per connection, the handler that is suspended at an await
  page,            \* the page of the client that is mounted, with its React state
  store,           \* the store of the rate limiter: per IP address, the hits of
                   \* the current window and how many of them were let through
  request,         \* the last HTTP request as sent by the client
  handled,         \* what the route handler of the last request was handed
  response         \* the last HTTP response

db == <<contacts, projects, tasks, projectMembers, seq>>
env == <<variant, nodeEnv, store, page, pending>>
vars == <<variant, contacts, projects, tasks, projectMembers, seq, now, nodeEnv, store, page,
          pending, request, handled, response>>

(***************************************************************************)
(* Bounds of the model.                                                    *)
(***************************************************************************)
MaxContacts == 2
MaxProjects == 2
MaxTasks == 1
MaxMembers == 2
MaxClock == 1
MaxListedTasks == 3
MaxHitsOver == 2
MaxClients == 2

\* rateLimit({ max: 100 })
RateLimitMax == 100

(***************************************************************************)
(* JSON / JavaScript values.                                               *)
(***************************************************************************)
S(s) == [t |-> "string", v |-> s]
N(n) == [t |-> "number", v |-> n, nan |-> FALSE]
NaN == [t |-> "number", v |-> 0, nan |-> TRUE]
JNull == [t |-> "null"]

Has(o, k) == k \in DOMAIN o

\* { ...a, ...b }
Spread(a, b) == [k \in (DOMAIN a) \cup (DOMAIN b) |-> IF k \in DOMAIN b THEN b[k] ELSE a[k]]

EmptyObject == [k \in {} |-> JNull]

(***************************************************************************)
(* String and number conversions, tabulated on the values the requests of  *)
(* the model use.                                                          *)
(***************************************************************************)
\* String.prototype.trim
Trim(s) == CASE s = " Jo" -> "Jo"
             [] s = "Jo " -> "Jo"
             [] OTHER -> s

\* String.prototype.toLowerCase
ToLowerCase(s) == CASE s = "A@x.io" -> "a@x.io"
                    [] s = "B@x.io" -> "b@x.io"
                    [] OTHER -> s

\* The format check of z.email(): one local part, one "@", a dotted domain,
\* no white space.
IsEmail(s) == s \in {"a@x.io", "A@x.io", "b@x.io", "B@x.io"}

\* new Date(s) is a valid date.
IsDate(s) == s \in {"2024-01-15", "2024-06-30"}

\* new Date(s) for a valid date string, as the day number since the epoch.
DateOf(s) == CASE s = "2024-01-15" -> 19737
               [] s = "2024-06-30" -> 19904

\* Number(s) for a string s (z.coerce.number, Number(req.query.x)).
NumberOf(s) == CASE s = "1" -> N(1)
                 [] s = "2" -> N(2)
                 [] s = "3" -> N(3)
                 [] s = "9" -> N(9)
                 [] s = "0" -> N(0)
                 [] s = "-1" -> N(-1)
                 [] s = "" -> N(0)
                 [] s = "1.5" -> Spread(N(1), [half |-> TRUE])
                 [] OTHER -> NaN

\* Array.prototype.join
RECURSIVE Join(_, _)
Join(a, sep) ==
  IF Len(a) = 0 THEN ""
  ELSE IF Len(a) = 1 THEN a[1]
  ELSE a[1] \o sep \o Join(Tail(a), sep)

Undefined == [t |-> "undefined"]
A(a) == [t |-> "array", v |-> a]

\* o[k] of a JavaScript object: undefined when the key is absent.
Get(o, k) == IF k \in DOMAIN o THEN o[k] ELSE Undefined

\* String(x) for a query-string value: a string, or an array of strings.
StringOf(x) == IF x.t = "array" THEN Join(x.v, ",") ELSE x.v

\* Number(x) for a query-string value.
NumberFrom(x) == IF x.t = "array" THEN NumberOf(Join(x.v, ",")) ELSE NumberOf(x.v)

\* JavaScript truthiness of a value: if (x) ...
Truthy(x) == CASE x.t = "undefined" -> FALSE
               [] x.t = "null" -> FALSE
               [] x.t = "string" -> x.v # ""
               [] x.t = "number" -> ~x.nan /\ x.v # 0
               [] OTHER -> TRUE

(***************************************************************************)
(* Zod schemas.  A schema is a sequence of field descriptions; ParseObject *)
(* is schema.parseAsync: it reports the issues in field order and returns  *)
(* the parsed object, which holds only keys of the schema.                 *)
(***************************************************************************)
Field(key, kind) ==
  [key |-> key, kind |-> kind, optional |-> FALSE, nullable |-> FALSE,
   hasDefault |-> FALSE, default |-> JNull, min |-> 0, msg |-> "", values |-> {}]

Optional(f) == [f EXCEPT !.optional = TRUE]
Nullable(f) == [f EXCEPT !.nullable = TRUE]
Default(f, d) == [f EXCEPT !.hasDefault = TRUE, !.default = d]
Min(f, n, msg) == [f EXCEPT !.min = n, !.msg = msg]
Enum(key, values) == [Field(key, "enum") EXCEPT !.values = values]

Issue(key, message) == [path |-> <<key>>, message |-> message]

\* The check of one present, non-null value v against the field f:
\* the issue message ("" when v is accepted) and the output value.
CheckValue(f, v) ==
  CASE f.kind = "string" ->
         IF v.t # "string" THEN [msg |-> "Invalid input: expected string", val |-> v]
         ELSE IF Len(v.v) < f.min
              THEN [msg |-> IF f.msg = "" THEN "Too small" ELSE f.msg, val |-> v]
              ELSE [msg |-> "", val |-> S(Trim(v.v))]
    [] f.kind = "email" ->
         IF v.t # "string" THEN [msg |-> "Invalid input: expected string", val |-> v]
         ELSE IF ~IsEmail(v.v) THEN [msg |-> f.msg, val |-> v]
              ELSE [msg |-> "", val |-> S(Trim(ToLowerCase(v.v)))]
    [] f.kind = "text" ->
         IF v.t # "string" THEN [msg |-> "Invalid input: expected string", val |-> v]
         ELSE [msg |-> "", val |-> v]
    [] f.kind = "enum" ->
         IF v.t # "string" \/ v.v \notin f.values
         THEN [msg |-> IF f.msg = "" THEN "Invalid option" ELSE f.msg, val |-> v]
         ELSE [msg |-> "", val |-> v]
    [] f.kind = "date" ->
         IF v.t # "string" \/ ~IsDate(v.v)
         THEN [msg |-> "Invalid input: expected date", val |-> v]
         ELSE [msg |-> "", val |-> v]
    [] f.kind = "int" ->
         IF v.t # "number" \/ v.nan
         THEN [msg |-> "Invalid input: expected number", val |-> v]
         ELSE [msg |-> "", val |-> v]
    [] f.kind = "posint" ->
         IF v.t # "number" \/ v.nan
         THEN [msg |-> IF f.msg = "" THEN "Invalid input: expected number" ELSE f.msg, val |-> v]
         ELSE IF v.v <= 0 THEN [msg |-> "Too small: expected number to be >0", val |-> v]
              ELSE [msg |-> "", val |-> v]
    [] f.kind = "coerceposint" ->
         LET n == IF v.t = "string" THEN NumberOf(v.v) ELSE v IN
         IF n.t # "number" \/ n.nan
         THEN [msg |-> IF f.msg = "" THEN "Invalid input: expected number" ELSE f.msg, val |-> v]
         ELSE IF Has(n, "half")
         THEN [msg |-> "Invalid input: expected int, received number", val |-> v]
         ELSE IF n.v <= 0 THEN [msg |-> "Too small: expected number to be >0", val |-> v]
              ELSE [msg |-> "", val |-> n]

\* One field of an object schema applied to the input object o.
\* An absent key takes the default of its field, also when .partial() has
\* wrapped the field in an optional (Zod 4 applies a default inside an
\* optional field).
ParseField(f, o) ==
  IF ~Has(o, f.key)
  THEN IF f.hasDefault THEN [issues |-> <<>>, has |-> TRUE, val |-> f.default]
       ELSE IF f.optional THEN [issues |-> <<>>, has |-> FALSE, val |-> JNull]
       ELSE [issues |-> <<Issue(f.key, "Invalid input: received undefined")>>,
             has |-> FALSE, val |-> JNull]
  ELSE IF o[f.key] = JNull
       THEN IF f.nullable THEN [issues |-> <<>>, has |-> TRUE, val |-> JNull]
            ELSE [issues |-> <<Issue(f.key, "Invalid input: received null")>>,
                  has |-> FALSE, val |-> JNull]
       ELSE LET c == CheckValue(f, o[f.key]) IN
            IF c.msg = "" THEN [issues |-> <<>>, has |-> TRUE, val |-> c.val]
            ELSE [issues |-> <<Issue(f.key, c.msg)>>, has |-> FALSE, val |-> JNull]

RECURSIVE IssuesFrom(_, _, _)
IssuesFrom(schema, o, i) ==
  IF i > Len(schema) THEN <<>>
  ELSE ParseField(schema[i], o).issues \o IssuesFrom(schema, o, i + 1)

ParseObject(schema, o) ==
  LET idx(k) == CHOOSE i \in 1..Len(schema) : schema[i].key = k
      keys == {schema[i].key : i \in {j \in 1..Len(schema) : ParseField(schema[j], o).has}}
  IN [issues |-> IssuesFrom(schema, o, 1),
      data |-> [k \in keys |-> ParseField(schema[idx(k)], o).val]]

\* A schema derived without .omit(): every key of the base schema stays.
OmitNothing(schema, keys) == schema

Omit(schema, keys) == SelectSeq(schema, LAMBDA f : f.key \notin keys)
Partial(schema) == [i \in DOMAIN schema |-> Optional(schema[i])]

TASK_STATUSES == {"TODO", "IN_PROGRESS", "REVIEW", "DONE"}
PRIORITIES == {"LOW", "MEDIUM", "HIGH", "URGENT"}

\* A schema that takes any string for an id.
IdParamSchemaOfStrings == <<Field("id", "string")>>

IdParamSchema == <<Field("id", "coerceposint")>>

baseContactSchema ==
  << Optional(Field("id", "int")),
     Min(Field("firstName", "string"), 2, "Le prénom doit contenir au moins 2 caractères"),
     Min(Field("lastName", "string"), 2, "Le nom doit contenir au moins 2 caractères"),
     [Field("email", "email") EXCEPT !.msg = "Format d'email invalide"],
     Optional(Nullable(Field("phone", "text"))),
     Optional(Nullable(Field("company", "text"))),
     Optional(Nullable(Field("notes", "text"))),
     Optional(Field("createdAt", "date")),
     Optional(Field("updatedAt", "date")) >>

SystemKeys == {"id", "createdAt", "updatedAt"}

CreateContactSchema == Omit(baseContactSchema, SystemKeys)
UpdateContactSchema == Partial(CreateContactSchema)

baseProjectSchema ==
  << Optional(Field("id", "int")),
     Min(Field("name", "string"), 1, "Le nom du projet est requis"),
     Optional(Nullable(Field("description", "text"))),
     Optional(Field("status", "text")),
     Field("startDate", "date"),
     Optional(Nullable(Field("endDate", "date"))),
     Optional(Field("createdAt", "date")),
     Optional(Field("updatedAt", "date")) >>

CreateProjectSchema == Omit(baseProjectSchema, SystemKeys)
UpdateProjectSchema == Partial(CreateProjectSchema)

baseTaskSchema ==
  << Optional(Field("id", "int")),
     Min(Field("title", "string"), 1, "Le titre est requis"),
     Optional(Nullable(Field("description", "text"))),
     Default(Enum("status", TASK_STATUSES), S("TODO")),
     Default(Enum("priority", PRIORITIES), S("MEDIUM")),
     Optional(Nullable(Field("dueDate", "date"))),
     Optional(Nullable(Field("assigneeId", "int"))),
     Optional(Nullable(Field("projectId", "int"))),
     Optional(Field("createdAt", "date")),
     Optional(Field("updatedAt", "date")) >>

CreateTaskSchema == Omit(baseTaskSchema, SystemKeys)
UpdateTaskSchema == Partial(CreateTaskSchema)

\* A schema that takes any string for a status.
UpdateTaskStatusSchemaOfStrings == <<Field("status", "string")>>

UpdateTaskStatusSchema == <<Enum("status", TASK_STATUSES)>>

AddMemberSchema ==
  << Field("contactId", "posint"),
     Default(Field("role", "text"), S("member")) >>

RemoveMemberParamsSchema ==
  << Field("id", "coerceposint"), Field("contactId", "coerceposint") >>

SchemaKeys(schema) == {schema[i].key : i \in 1..Len(schema)}

(***************************************************************************)
(* The response envelope (utils/response.ts) and the two middlewares that  *)
(* build a response of their own.                                          *)
(***************************************************************************)
createResponse(success, data, message) ==
  [success |-> success, data |-> data, message |-> message, timestamp |-> now]

successResponse(data, message) == createResponse(TRUE, data, message)

errorResponse(message) == createResponse(FALSE, JNull, message)

Res(status, body) == [status |-> status, body |-> body]

formattedErrors(issues) ==
  [i \in DOMAIN issues |-> [field |-> Join(issues[i].path, "."), message |-> issues[i].message]]

\* validate that reports the first issue only.
validateFirstIssue(schema, input) ==
  LET parsed == ParseObject(schema, input) IN
  IF parsed.issues # <<>>
  THEN [next |-> FALSE,
        res |-> Res(400, [success |-> FALSE, message |-> "Données invalides",
                          errors |-> formattedErrors(<<Head(parsed.issues)>>)])]
  ELSE [next |-> TRUE, data |-> parsed.data]

\* validate(schema, source) applied to the value input of req[source]:
\* either the 400 response it sends, or the cleaned data it stores in
\* req[source] before calling next().
validate(schema, input) ==
  LET parsed == ParseObject(schema, input) IN
  IF parsed.issues # <<>>
  THEN [next |-> FALSE,
        res |-> Res(400, [success |-> FALSE, message |-> "Données invalides",
                          errors |-> formattedErrors(parsed.issues)])]
  ELSE [next |-> TRUE, data |-> parsed.data]

\* An error thrown by the database driver: it carries a code and no statusCode.
DriverError(code) == [code |-> code, message |-> code, statusCode |-> 0]

\* An error raised by express.json(): a body that is not JSON (400) or one
\* over the size limit (413); http-errors sets its statusCode.
BodyParserError(statusCode) ==
  [code |-> "", statusCode |-> statusCode,
   message |-> IF statusCode = 413 THEN "request entity too large"
               ELSE "Unexpected token in JSON"]

\* The response of a handler of errors to err: the field error of the model's
\* response records the error that was handed over (it is not sent).
Caught(err, res) == Spread(res, [error |-> err])

\* A handler of errors that answers every error with 500.
globalErrorHandlerAlways500(err) ==
  LET statusCode == 500
      message == IF nodeEnv = "production" /\ statusCode = 500
                 THEN "Une erreur interne est survenue"
                 ELSE IF err.message # "" THEN err.message ELSE "Unknown Error"
      body == [success |-> FALSE, message |-> message, timestamp |-> now]
  IN Caught(err, Res(statusCode,
         IF nodeEnv = "development" THEN Spread(body, [stack |-> "Error: " \o err.message])
         ELSE body))

\* A handler of errors that hides the stack in production only.
globalErrorHandlerStackUnlessProduction(err) ==
  LET statusCode == IF err.statusCode # 0 THEN err.statusCode ELSE 500
      message == IF nodeEnv = "production" /\ statusCode = 500
                 THEN "Une erreur interne est survenue"
                 ELSE IF err.message # "" THEN err.message ELSE "Unknown Error"
      body == [success |-> FALSE, message |-> message, timestamp |-> now]
  IN Caught(err, Res(statusCode,
         IF nodeEnv # "production" THEN Spread(body, [stack |-> "Error: " \o err.message])
         ELSE body))

globalErrorHandler(err) ==
  LET statusCode == IF err.statusCode # 0 THEN err.statusCode ELSE 500
      message == IF nodeEnv = "production" /\ statusCode = 500
                 THEN "Une erreur interne est survenue"
                 ELSE IF err.message # "" THEN err.message ELSE "Unknown Error"
      body == [success |-> FALSE, message |-> message, timestamp |-> now]
  IN Caught(err, Res(statusCode,
         IF nodeEnv = "development" THEN Spread(body, [stack |-> "Error: " \o err.message])
         ELSE body))

(***************************************************************************)
(* The database: constraint codes of the two drivers, and the statements   *)
(* the services issue.  A statement yields err = "" and its RETURNING rows *)
(* together with the new contents of the tables it touches, or the code of *)
(* the constraint it violates and no change.                               *)
(***************************************************************************)
UniqueViolation == IF variant = "sqlite" THEN "SQLITE_CONSTRAINT_UNIQUE" ELSE "23505"
ForeignKeyViolation == IF variant = "sqlite" THEN "SQLITE_CONSTRAINT_FOREIGNKEY" ELSE "23503"

Ids(table) == {r.id : r \in table}

Max(a, b) == IF a > b THEN a ELSE b

\* --- Contact ---------------------------------------------------------------
contactRow(data) ==
  [id |-> IF Has(data, "id") THEN data.id.v ELSE seq.contact + 1,
   firstName |-> data.firstName.v,
   lastName |-> data.lastName.v,
   email |-> data.email.v]

\* db.insert(contacts).values(data).returning()
InsertContact(data) ==
  LET row == contactRow(data) IN
  IF \E c \in contacts : c.email = row.email \/ c.id = row.id
  THEN [err |-> UniqueViolation]
  ELSE [err |-> "", rows |-> {row}, contacts |-> contacts \cup {row},
        seq |-> [seq EXCEPT !.contact = Max(@, row.id)]]

\* The row after UPDATE ... SET data (absent keys keep their value).
SetContact(row, data) ==
  [k \in DOMAIN row |-> IF Has(data, k) THEN data[k].v ELSE row[k]]

\* UPDATE under a uniqueness check that counts the updated row itself.
UpdateContactUniqueAmongAll(id, data) ==
  LET target == {c \in contacts : c.id = id}
      rows == {SetContact(c, data) : c \in target}
      others == contacts \ target
  IN IF \E r \in rows, c \in contacts : c.email = r.email
     THEN [err |-> UniqueViolation]
     ELSE [err |-> "", rows |-> rows, contacts |-> others \cup rows]

\* db.update(contacts).set(data).where(eq(contacts.id, id)).returning()
UpdateContact(id, data) ==
  LET target == {c \in contacts : c.id = id}
      rows == {SetContact(c, data) : c \in target}
      others == contacts \ target
  IN IF \E r \in rows, c \in others : c.email = r.email \/ c.id = r.id
     THEN [err |-> UniqueViolation]
     ELSE [err |-> "", rows |-> rows, contacts |-> others \cup rows]

\* DELETE of a contact with Task.assigneeId ON DELETE CASCADE.
DeleteContactCascadeTasks(id) ==
  LET target == {c \in contacts : c.id = id} IN
  [err |-> "", rows |-> target, contacts |-> contacts \ target,
   tasks |-> {t \in tasks : t.assigneeId \notin {N(c.id) : c \in target}},
   projectMembers |-> {m \in projectMembers : m.contactId \notin Ids(target)}]

\* db.delete(contacts).where(eq(contacts.id, id)).returning(), with
\* Task.assigneeId ON DELETE SET NULL and ProjectMember.contactId ON DELETE CASCADE.
DeleteContact(id) ==
  LET target == {c \in contacts : c.id = id} IN
  [err |-> "", rows |-> target, contacts |-> contacts \ target,
   tasks |-> {IF t.assigneeId \in {N(c.id) : c \in target}
              THEN [t EXCEPT !.assigneeId = JNull] ELSE t : t \in tasks},
   projectMembers |-> {m \in projectMembers : m.contactId \notin Ids(target)}]

(***************************************************************************)
(* Statements on Project, ProjectMember and Task.                          *)
(***************************************************************************)
\* --- Project ---------------------------------------------------------------
\* db.insert(projects).values(data).returning(); status defaults to 'active'.
InsertProject(data) ==
  LET row == [id |-> IF Has(data, "id") THEN data.id.v ELSE seq.project + 1,
              name |-> data.name.v,
              status |-> IF Has(data, "status") THEN data.status.v ELSE "active"]
  IN IF \E p \in projects : p.id = row.id
     THEN [err |-> UniqueViolation]
     ELSE [err |-> "", rows |-> {row}, projects |-> projects \cup {row},
           seq |-> [seq EXCEPT !.project = Max(@, row.id)]]

\* UPDATE written as an upsert: a row is created when none has the id.
UpsertProject(id, data) ==
  LET target == {p \in projects : p.id = id}
      rows == IF target = {}
              THEN {[id |-> id,
                     name |-> IF Has(data, "name") THEN data.name.v ELSE "",
                     status |-> IF Has(data, "status") THEN data.status.v ELSE "active"]}
              ELSE {[k \in DOMAIN p |-> IF Has(data, k) THEN data[k].v ELSE p[k]] : p \in target}
  IN [err |-> "", rows |-> rows, projects |-> (projects \ target) \cup rows]

\* db.update(projects).set(data).where(eq(projects.id, id)).returning()
UpdateProject(id, data) ==
  LET target == {p \in projects : p.id = id}
      rows == {[k \in DOMAIN p |-> IF Has(data, k) THEN data[k].v ELSE p[k]] : p \in target}
  IN [err |-> "", rows |-> rows, projects |-> (projects \ target) \cup rows]

\* DELETE without the referential actions of Task and ProjectMember.
DeleteProjectNoCascade(id) ==
  LET target == {p \in projects : p.id = id} IN
  [err |-> "", rows |-> target, projects |-> projects \ target,
   tasks |-> tasks, projectMembers |-> projectMembers]

\* db.delete(projects).where(eq(projects.id, id)).returning({ id }), with
\* Task.projectId and ProjectMember.projectId ON DELETE CASCADE.
DeleteProject(id) ==
  LET target == {p \in projects : p.id = id} IN
  [err |-> "", rows |-> target, projects |-> projects \ target,
   tasks |-> {t \in tasks : t.projectId \notin {N(p.id) : p \in target}},
   projectMembers |-> {m \in projectMembers : m.projectId \notin Ids(target)}]

\* INSERT into a table without the unique index on (contactId, projectId).
InsertMemberNoUnique(projectId, contactId, role) ==
  LET row == [id |-> seq.member + 1, contactId |-> contactId,
              projectId |-> projectId, role |-> role]
  IN IF contactId \notin Ids(contacts) \/ projectId \notin Ids(projects)
     THEN [err |-> ForeignKeyViolation]
     ELSE [err |-> "", rows |-> {row}, projectMembers |-> projectMembers \cup {row},
           seq |-> [seq EXCEPT !.member = @ + 1]]

\* --- ProjectMember ---------------------------------------------------------
\* db.insert(projectMembers).values({ projectId, contactId, role }).returning()
InsertMember(projectId, contactId, role) ==
  LET row == [id |-> seq.member + 1, contactId |-> contactId,
              projectId |-> projectId, role |-> role]
  IN IF contactId \notin Ids(contacts) \/ projectId \notin Ids(projects)
     THEN [err |-> ForeignKeyViolation]
     ELSE IF \E m \in projectMembers : m.contactId = contactId /\ m.projectId = projectId
     THEN [err |-> UniqueViolation]
     ELSE [err |-> "", rows |-> {row}, projectMembers |-> projectMembers \cup {row},
           seq |-> [seq EXCEPT !.member = @ + 1]]

\* db.delete(projectMembers).where(and(eq(projectId), eq(contactId))).returning()
DeleteMember(projectId, contactId) ==
  LET target == {m \in projectMembers : m.projectId = projectId /\ m.contactId = contactId}
  IN [err |-> "", rows |-> target, projectMembers |-> projectMembers \ target]

\* A foreign key that the database does not enforce.
FkOkUnenforced(v, parent) == TRUE

\* --- Task ------------------------------------------------------------------
\* A foreign key value v is NULL or the id of a row of the parent table.
FkOk(v, parent) == v = JNull \/ v.v \in Ids(parent)

\* db.insert(tasks).values(payload).returning({ id })
InsertTask(payload) ==
  LET row == [id |-> IF Has(payload, "id") THEN payload.id.v ELSE seq.task + 1,
              title |-> payload.title.v,
              status |-> IF Has(payload, "status") THEN payload.status.v ELSE "TODO",
              priority |-> IF Has(payload, "priority") THEN payload.priority.v ELSE "MEDIUM",
              assigneeId |-> IF Has(payload, "assigneeId") THEN payload.assigneeId ELSE JNull,
              projectId |-> IF Has(payload, "projectId") THEN payload.projectId ELSE JNull,
              dueDate |-> IF Has(payload, "dueDate") /\ payload.dueDate # JNull
                          THEN N(DateOf(payload.dueDate.v)) ELSE JNull,
              createdAt |-> now,
              updatedAt |-> now]
  IN IF ~FkOk(row.assigneeId, contacts) \/ ~FkOk(row.projectId, projects)
     THEN [err |-> ForeignKeyViolation]
     ELSE IF \E t \in tasks : t.id = row.id
     THEN [err |-> UniqueViolation]
     ELSE [err |-> "", rows |-> {row}, tasks |-> tasks \cup {row},
           seq |-> [seq EXCEPT !.task = Max(@, row.id)]]

\* UPDATE that writes the column defaults for the keys the payload lacks.
SetTaskWithDefaults(row, payload) ==
  [k \in DOMAIN row |->
     IF k = "updatedAt" THEN now
     ELSE IF k = "priority" /\ ~Has(payload, k) THEN "MEDIUM"
     ELSE IF ~Has(payload, k) THEN row[k]
     ELSE IF k \in {"assigneeId", "projectId"} THEN payload[k]
     ELSE IF k = "dueDate"
          THEN IF payload[k] = JNull THEN JNull ELSE N(DateOf(payload[k].v))
     ELSE payload[k].v]

\* The row after UPDATE ... SET payload; updatedAt is $onUpdate(() => new Date()).
SetTask(row, payload) ==
  [k \in DOMAIN row |->
     IF k = "updatedAt" THEN now
     ELSE IF ~Has(payload, k) THEN row[k]
     ELSE IF k \in {"assigneeId", "projectId"} THEN payload[k]
     ELSE IF k = "dueDate"
          THEN IF payload[k] = JNull THEN JNull ELSE N(DateOf(payload[k].v))
     ELSE payload[k].v]

\* db.update(tasks).set(payload).where(eq(tasks.id, id)).returning({ id })
UpdateTask(id, payload) ==
  LET target == {t \in tasks : t.id = id}
      rows == {SetTask(t, payload) : t \in target}
  IN IF \E r \in rows : ~FkOk(r.assigneeId, contacts) \/ ~FkOk(r.projectId, projects)
     THEN [err |-> ForeignKeyViolation]
     ELSE [err |-> "", rows |-> rows, tasks |-> (tasks \ target) \cup rows]

\* db.delete(tasks).where(eq(tasks.id, id)).returning({ id })
DeleteTask(id) ==
  LET target == {t \in tasks : t.id = id}
  IN [err |-> "", rows |-> target, tasks |-> tasks \ target]

\* A task of the table ts with its relations (with: { assignee, project }).
TaskWithDetails(t, cs, ps) ==
  Spread(t, [assignee |-> IF \E c \in cs : N(c.id) = t.assigneeId
                          THEN LET c == CHOOSE c \in cs : N(c.id) = t.assigneeId
                               IN [id |-> c.id, firstName |-> c.firstName,
                                   lastName |-> c.lastName, email |-> c.email]
                          ELSE JNull,
             project |-> IF \E p \in ps : N(p.id) = t.projectId
                         THEN CHOOSE p \in ps : N(p.id) = t.projectId
                         ELSE JNull])

(***************************************************************************)
(* Book-keeping of one HTTP exchange.                                      *)
(***************************************************************************)
Req(op, params, query, body) == [op |-> op, params |-> params, query |-> query, body |-> body]

NotReached == [reached |-> FALSE, params |-> EmptyObject, body |-> EmptyObject]
Reached(params, body) == [reached |-> TRUE, params |-> params, body |-> body]

Idle == Req("none", EmptyObject, EmptyObject, EmptyObject)

\* The three variables describe one exchange from the request (a route takes
\* it up when the previous exchange is over) until EndExchange.
Exchange(req, h, res) ==
  /\ request' = req
  /\ handled' = h
  /\ response' = res
  /\ UNCHANGED <<env, now>>

(***************************************************************************)
(* Contact routes (routes/v1/contact.route.ts).                            *)
(***************************************************************************)
\* The code of a unique violation as the Prisma client reports it.
ContactUniqueCodeOfPrisma == "P2002"

ContactUniqueCode == IF variant = "sqlite" THEN "SQLITE_CONSTRAINT_UNIQUE" ELSE "23505"

\* The response of GET /api/v1/contact/list.
contactList == Res(200, successResponse(contacts, "Liste des contacts récupérée"))

\* GET /api/v1/contact/list
GetContactList ==
  /\ request = Idle
  /\ Exchange(Req("GET /contact/list", EmptyObject, EmptyObject, EmptyObject),
              Reached(EmptyObject, EmptyObject), contactList)
  /\ UNCHANGED db

\* GET /api/v1/contact/:id
GetContact(params) ==
  /\ request = Idle
  /\ UNCHANGED db
  /\ \E req \in {Req("GET /contact/:id", params, EmptyObject, EmptyObject)},
        p \in {validate(IdParamSchema, params)} :
       IF ~p.next THEN Exchange(req, NotReached, p.res)
       ELSE \E contact \in {{c \in contacts : c.id = p.data.id.v}} :
              Exchange(req, Reached(p.data, EmptyObject),
                IF contact = {} THEN Res(404, errorResponse("Contact introuvable"))
                ELSE Res(200, successResponse(CHOOSE c \in contact : TRUE, "Success")))

\* POST /api/v1/contact
PostContact(body) ==
  /\ request = Idle
  /\ seq.contact < MaxContacts
  /\ \E req \in {Req("POST /contact", EmptyObject, EmptyObject, body)},
        b \in {validate(CreateContactSchema, body)} :
       IF ~b.next THEN Exchange(req, NotReached, b.res) /\ UNCHANGED db
       ELSE \E r \in {InsertContact(b.data)} :
              IF r.err = ""
              THEN /\ contacts' = r.contacts
                   /\ seq' = r.seq
                   /\ UNCHANGED <<projects, tasks, projectMembers>>
                   /\ Exchange(req, Reached(EmptyObject, b.data),
                        Res(201, successResponse(CHOOSE c \in r.rows : TRUE,
                                                 "Contact créé avec succès")))
              ELSE /\ UNCHANGED db
                   /\ Exchange(req, Reached(EmptyObject, b.data),
                        IF r.err = ContactUniqueCode
                        THEN Res(409, errorResponse("Cette adresse email est déjà utilisée"))
                        ELSE globalErrorHandler(DriverError(r.err)))

\* PUT /api/v1/contact/:id
PutContact(params, body) ==
  /\ request = Idle
  /\ \E req \in {Req("PUT /contact/:id", params, EmptyObject, body)},
        p \in {validate(IdParamSchema, params)},
        b \in {validate(UpdateContactSchema, body)} :
       IF ~p.next THEN Exchange(req, NotReached, p.res) /\ UNCHANGED db
       ELSE IF ~b.next THEN Exchange(req, NotReached, b.res) /\ UNCHANGED db
       ELSE \E r \in {UpdateContact(p.data.id.v, b.data)} :
              IF r.err = ""
              THEN /\ contacts' = r.contacts
                   /\ UNCHANGED <<projects, tasks, projectMembers, seq>>
                   /\ Exchange(req, Reached(p.data, b.data),
                        IF r.rows = {}
                        THEN Res(404, errorResponse("Contact introuvable pour mise à jour"))
                        ELSE Res(200, successResponse(CHOOSE c \in r.rows : TRUE,
                                                      "Contact mis à jour")))
              ELSE /\ UNCHANGED db
                   /\ Exchange(req, Reached(p.data, b.data),
                        IF r.err = ContactUniqueCode
                        THEN Res(409, errorResponse("Cet email est déjà associé à un autre contact"))
                        ELSE globalErrorHandler(DriverError(r.err)))

\* DELETE /api/v1/contact/:id
DeleteContactRoute(params) ==
  /\ request = Idle
  /\ \E req \in {Req("DELETE /contact/:id", params, EmptyObject, EmptyObject)},
        p \in {validate(IdParamSchema, params)} :
       IF ~p.next THEN Exchange(req, NotReached, p.res) /\ UNCHANGED db
       ELSE \E r \in {DeleteContact(p.data.id.v)} :
              /\ contacts' = r.contacts
              /\ tasks' = r.tasks
              /\ projectMembers' = r.projectMembers
              /\ UNCHANGED <<projects, seq>>
              /\ Exchange(req, Reached(p.data, EmptyObject),
                   IF r.rows = {} THEN Res(404, errorResponse("Contact introuvable"))
                   ELSE Res(200, successResponse(JNull, "Contact supprimé avec succès")))

(***************************************************************************)
(* Project routes (routes/v1/project.route.ts) and project service.        *)
(***************************************************************************)
MemberUniqueCode == IF variant = "sqlite" THEN "SQLITE_CONSTRAINT_UNIQUE" ELSE "23505"
\* The code of a foreign key violation as the Prisma client reports it.
MemberForeignKeyCodeOfPrisma == "P2003"

MemberForeignKeyCode == IF variant = "sqlite" THEN "SQLITE_CONSTRAINT_FOREIGNKEY" ELSE "23503"

\* The filters object the project list route builds from req.query.
ProjectListFilters(query) ==
  LET status == Get(query, "status") IN
  IF Truthy(status) /\ status.t = "string" THEN [status |-> status.v] ELSE EmptyObject

\* projectService.findAll(filters)
findAllProjects(filters) ==
  LET results == IF Has(filters, "status") /\ filters.status # ""
                 THEN {p \in projects : p.status = filters.status}
                 ELSE projects
  IN {Spread(p, [_count |-> [tasks |-> Cardinality({t \in tasks : t.projectId = N(p.id)}),
                             members |-> Cardinality({m \in projectMembers : m.projectId = p.id})]])
        : p \in results}

\* GET /api/v1/project/list
GetProjectList(query) ==
  /\ request = Idle
  /\ \E filters \in {ProjectListFilters(query)} :
       Exchange(Req("GET /project/list", EmptyObject, query, EmptyObject),
                Reached(EmptyObject, EmptyObject),
                Res(200, successResponse(findAllProjects(filters),
                                         "Projets récupérés avec succès")))
  /\ UNCHANGED db

\* GET /api/v1/project/:id
GetProject(params) ==
  /\ request = Idle
  /\ UNCHANGED db
  /\ \E req \in {Req("GET /project/:id", params, EmptyObject, EmptyObject)},
        p \in {validate(IdParamSchema, params)} :
       IF ~p.next THEN Exchange(req, NotReached, p.res)
       ELSE \E project \in {{x \in projects : x.id = p.data.id.v}} :
              Exchange(req, Reached(p.data, EmptyObject),
                IF project = {} THEN Res(404, errorResponse("Projet introuvable"))
                ELSE Res(200, successResponse(
                       Spread(CHOOSE x \in project : TRUE,
                              [members |-> {m \in projectMembers : m.projectId = p.data.id.v},
                               tasks |-> {t \in tasks : t.projectId = p.data.id}]),
                       "Success")))

\* POST /api/v1/project
PostProject(body) ==
  /\ request = Idle
  /\ seq.project < MaxProjects
  /\ \E req \in {Req("POST /project", EmptyObject, EmptyObject, body)},
        b \in {validate(CreateProjectSchema, body)} :
       IF ~b.next THEN Exchange(req, NotReached, b.res) /\ UNCHANGED db
       ELSE \E r \in {InsertProject(b.data)} :
              IF r.err = ""
              THEN /\ projects' = r.projects
                   /\ seq' = r.seq
                   /\ UNCHANGED <<contacts, tasks, projectMembers>>
                   /\ Exchange(req, Reached(EmptyObject, b.data),
                        Res(201, successResponse(CHOOSE x \in r.rows : TRUE,
                                                 "Projet créé avec succès")))
              ELSE /\ UNCHANGED db
                   /\ Exchange(req, Reached(EmptyObject, b.data),
                               globalErrorHandler(DriverError(r.err)))

\* PUT /api/v1/project/:id
PutProject(params, body) ==
  /\ request = Idle
  /\ \E req \in {Req("PUT /project/:id", params, EmptyObject, body)},
        p \in {validate(IdParamSchema, params)},
        b \in {validate(UpdateProjectSchema, body)} :
       IF ~p.next THEN Exchange(req, NotReached, p.res) /\ UNCHANGED db
       ELSE IF ~b.next THEN Exchange(req, NotReached, b.res) /\ UNCHANGED db
       ELSE \E r \in {UpdateProject(p.data.id.v, b.data)} :
              /\ projects' = r.projects
              /\ UNCHANGED <<contacts, tasks, projectMembers, seq>>
              /\ Exchange(req, Reached(p.data, b.data),
                   IF r.rows = {} THEN Res(404, errorResponse("Projet introuvable"))
                   ELSE Res(200, successResponse(CHOOSE x \in r.rows : TRUE,
                                                 "Projet mis à jour avec succès")))

\* DELETE /api/v1/project/:id
DeleteProjectRoute(params) ==
  /\ request = Idle
  /\ \E req \in {Req("DELETE /project/:id", params, EmptyObject, EmptyObject)},
        p \in {validate(IdParamSchema, params)} :
       IF ~p.next THEN Exchange(req, NotReached, p.res) /\ UNCHANGED db
       ELSE \E r \in {DeleteProject(p.data.id.v)} :
              /\ projects' = r.projects
              /\ tasks' = r.tasks
              /\ projectMembers' = r.projectMembers
              /\ UNCHANGED <<contacts, seq>>
              /\ Exchange(req, Reached(p.data, EmptyObject),
                   IF r.rows = {} THEN Res(404, errorResponse("Projet introuvable"))
                   ELSE Res(200, successResponse(JNull, "Projet supprimé avec succès")))

\* projectService.addMember(projectId, memberData)
addMember(projectId, memberData) ==
  InsertMember(projectId, memberData.contactId.v,
               IF Truthy(Get(memberData, "role")) THEN memberData.role.v ELSE "member")

\* POST /api/v1/project/:id/members
PostMember(params, body) ==
  /\ request = Idle
  /\ seq.member < MaxMembers
  /\ \E req \in {Req("POST /project/:id/members", params, EmptyObject, body)},
        p \in {validate(IdParamSchema, params)},
        b \in {validate(AddMemberSchema, body)} :
       IF ~p.next THEN Exchange(req, NotReached, p.res) /\ UNCHANGED db
       ELSE IF ~b.next THEN Exchange(req, NotReached, b.res) /\ UNCHANGED db
       ELSE \E r \in {addMember(p.data.id.v, b.data)} :
              IF r.err = ""
              THEN /\ projectMembers' = r.projectMembers
                   /\ seq' = r.seq
                   /\ UNCHANGED <<contacts, projects, tasks>>
                   /\ Exchange(req, Reached(p.data, b.data),
                        Res(201, successResponse(CHOOSE m \in r.rows : TRUE,
                                                 "Membre ajouté au projet")))
              ELSE /\ UNCHANGED db
                   /\ Exchange(req, Reached(p.data, b.data),
                        IF r.err = MemberUniqueCode
                        THEN Res(409, errorResponse("Ce contact est déjà membre du projet"))
                        ELSE IF r.err = MemberForeignKeyCode
                        THEN Res(404, errorResponse("Projet ou Contact introuvable"))
                        ELSE globalErrorHandler(DriverError(r.err)))

\* A query for the members without its where clause.
getMembersOfEveryProject(projectId) == projectMembers

\* projectService.getMembers(projectId)
getMembers(projectId) == {m \in projectMembers : m.projectId = projectId}

\* GET /api/v1/project/:id/members
GetMembers(params) ==
  /\ request = Idle
  /\ UNCHANGED db
  /\ \E req \in {Req("GET /project/:id/members", params, EmptyObject, EmptyObject)},
        p \in {validate(IdParamSchema, params)} :
       IF ~p.next THEN Exchange(req, NotReached, p.res)
       ELSE Exchange(req, Reached(p.data, EmptyObject),
              Res(200, successResponse(getMembers(p.data.id.v), "Success")))

\* DELETE /api/v1/project/:id/members/:contactId
DeleteMemberRoute(params) ==
  /\ request = Idle
  /\ \E req \in {Req("DELETE /project/:id/members/:contactId", params, EmptyObject, EmptyObject)},
        p \in {validate(RemoveMemberParamsSchema, params)} :
       IF ~p.next THEN Exchange(req, NotReached, p.res) /\ UNCHANGED db
       ELSE \E r \in {DeleteMember(p.data.id.v, p.data.contactId.v)} :
              /\ projectMembers' = r.projectMembers
              /\ UNCHANGED <<contacts, projects, tasks, seq>>
              /\ Exchange(req, Reached(p.data, EmptyObject),
                   IF r.rows = {} THEN Res(404, errorResponse("Membre introuvable dans ce projet"))
                   ELSE Res(200, successResponse(JNull, "Membre retiré du projet")))

(***************************************************************************)
(* Task routes (routes/v1/task.route.ts) and task service.                 *)
(***************************************************************************)
\* The code of a foreign key violation on Task as the Prisma client reports it.
TaskForeignKeyCodeOfPrisma == "P2003"

TaskForeignKeyCode == IF variant = "sqlite" THEN "SQLITE_CONSTRAINT_FOREIGNKEY" ELSE "23503"

\* The filters object the task list route builds from req.query.
TaskListFilters(query) ==
  LET strs == {k \in {"status", "priority"} : Truthy(Get(query, k))}
      nums == {k \in {"assigneeId", "projectId"} : Truthy(Get(query, k))}
  IN [k \in strs \cup nums |-> IF k \in strs THEN S(StringOf(query[k]))
                               ELSE NumberFrom(query[k])]

\* The place of a priority in the collation of its TEXT column: the strings
\* of PRIORITIES differ in their first character, whose code decides.
TextOrder(s) == CASE s = "HIGH" -> 72
                  [] s = "LOW" -> 76
                  [] s = "MEDIUM" -> 77
                  [] s = "URGENT" -> 85

\* The place of a due date in an ascending sort: SQLite puts NULL before
\* every value, Postgres after every value.
DueDateOrder(d) == IF d # JNull THEN d.v
                   ELSE IF variant = "sqlite" THEN -1 ELSE 99999

\* orderBy: [desc(tasks.priority), asc(tasks.dueDate), desc(tasks.createdAt)]:
\* row a has to come before row b.
OrderedBefore(a, b) ==
  \/ TextOrder(a.priority) > TextOrder(b.priority)
  \/ /\ a.priority = b.priority
     /\ \/ DueDateOrder(a.dueDate) < DueDateOrder(b.dueDate)
        \/ /\ DueDateOrder(a.dueDate) = DueDateOrder(b.dueDate)
           /\ a.createdAt > b.createdAt

\* The lists the ORDER BY may return for the rows: every arrangement of the
\* rows that respects the sort (rows that tie come in any order).
OrderBy(rows) ==
  {list \in [1..Cardinality(rows) -> rows] :
     /\ \A r \in rows : \E i \in DOMAIN list : list[i] = r
     /\ \A i, j \in DOMAIN list : i < j => ~OrderedBefore(list[j], list[i])}

\* taskService.findAll(filters): the conditions pushed, the rows they
\* select, and the lists the query may return for them.
findAllTasks(filters) ==
  LET conditions == {k \in DOMAIN filters : Truthy(filters[k])}
      matches(t) == \A k \in conditions :
                      IF k \in {"status", "priority"} THEN t[k] = filters[k].v
                      ELSE t[k] = N(filters[k].v)
  IN {[i \in DOMAIN list |-> TaskWithDetails(list[i], contacts, projects)]
        : list \in OrderBy({u \in tasks : matches(u)})}

\* GET /api/v1/task/list
GetTaskList(query) ==
  /\ request = Idle
  /\ \E filters \in {TaskListFilters(query)} :
       \E list \in findAllTasks(filters) :
         Exchange(Req("GET /task/list", EmptyObject, query, EmptyObject),
                  Reached(EmptyObject, EmptyObject),
                  Res(200, successResponse(list, "Tâches récupérées avec succès")))
  /\ UNCHANGED db

\* GET /api/v1/task/:id
GetTask(params) ==
  /\ request = Idle
  /\ UNCHANGED db
  /\ \E req \in {Req("GET /task/:id", params, EmptyObject, EmptyObject)},
        p \in {validate(IdParamSchema, params)} :
       IF ~p.next THEN Exchange(req, NotReached, p.res)
       ELSE \E task \in {{t \in tasks : t.id = p.data.id.v}} :
              Exchange(req, Reached(p.data, EmptyObject),
                IF task = {} THEN Res(404, errorResponse("Tâche introuvable"))
                ELSE Res(200, successResponse(
                       TaskWithDetails(CHOOSE t \in task : TRUE, contacts, projects),
                       "Success")))

\* POST /api/v1/task, while fewer than max tasks have been created.
PostTaskUpTo(body, max) ==
  /\ request = Idle
  /\ seq.task < max
  /\ \E req \in {Req("POST /task", EmptyObject, EmptyObject, body)},
        b \in {validate(CreateTaskSchema, body)} :
       IF ~b.next THEN Exchange(req, NotReached, b.res) /\ UNCHANGED db
       ELSE \E r \in {InsertTask(b.data)} :
              IF r.err = ""
              THEN /\ tasks' = r.tasks
                   /\ seq' = r.seq
                   /\ UNCHANGED <<contacts, projects, projectMembers>>
                   /\ Exchange(req, Reached(EmptyObject, b.data),
                        Res(201, successResponse(
                          TaskWithDetails(CHOOSE t \in r.rows : TRUE, contacts, projects),
                          "Tâche créée avec succès")))
              ELSE /\ UNCHANGED db
                   /\ Exchange(req, Reached(EmptyObject, b.data),
                        IF r.err = TaskForeignKeyCode
                        THEN Res(400, errorResponse("Le projet ou le contact assigné n'existe pas"))
                        ELSE globalErrorHandler(DriverError(r.err)))

PostTask(body) == PostTaskUpTo(body, MaxTasks)

\* The response of a route to the rows returned by taskService.update.
TaskUpdated(rows, message) ==
  IF rows = {} THEN Res(404, errorResponse("Tâche introuvable"))
  ELSE Res(200, successResponse(
         TaskWithDetails(CHOOSE t \in rows : TRUE, contacts, projects), message))

\* PUT /api/v1/task/:id: the Postgres route maps a foreign key violation to
\* 400, the SQLite route has no try/catch.
PutTask(params, body) ==
  /\ request = Idle
  /\ \E req \in {Req("PUT /task/:id", params, EmptyObject, body)},
        p \in {validate(IdParamSchema, params)},
        b \in {validate(UpdateTaskSchema, body)} :
       IF ~p.next THEN Exchange(req, NotReached, p.res) /\ UNCHANGED db
       ELSE IF ~b.next THEN Exchange(req, NotReached, b.res) /\ UNCHANGED db
       ELSE \E r \in {UpdateTask(p.data.id.v, b.data)} :
              IF r.err = ""
              THEN /\ tasks' = r.tasks
                   /\ UNCHANGED <<contacts, projects, projectMembers, seq>>
                   /\ Exchange(req, Reached(p.data, b.data),
                               TaskUpdated(r.rows, "Tâche mise à jour avec succès"))
              ELSE /\ UNCHANGED db
                   /\ Exchange(req, Reached(p.data, b.data),
                        IF variant = "pg" /\ r.err = "23503"
                        THEN Res(400, errorResponse("Le projet ou le contact assigné n'existe pas"))
                        ELSE globalErrorHandler(DriverError(r.err)))

\* DELETE /api/v1/task/:id
DeleteTaskRoute(params) ==
  /\ request = Idle
  /\ \E req \in {Req("DELETE /task/:id", params, EmptyObject, EmptyObject)},
        p \in {validate(IdParamSchema, params)} :
       IF ~p.next THEN Exchange(req, NotReached, p.res) /\ UNCHANGED db
       ELSE \E r \in {DeleteTask(p.data.id.v)} :
              /\ tasks' = r.tasks
              /\ UNCHANGED <<contacts, projects, projectMembers, seq>>
              /\ Exchange(req, Reached(p.data, EmptyObject),
                   IF r.rows = {} THEN Res(404, errorResponse("Tâche introuvable"))
                   ELSE Res(200, successResponse(JNull, "Tâche supprimée avec succès")))

\* PATCH /api/v1/task/:id/status: updateStatus(id, status) is update(id, { status }).
PatchTaskStatus(params, body) ==
  /\ request = Idle
  /\ \E req \in {Req("PATCH /task/:id/status", params, EmptyObject, body)},
        p \in {validate(IdParamSchema, params)},
        b \in {validate(UpdateTaskStatusSchema, body)} :
       IF ~p.next THEN Exchange(req, NotReached, p.res) /\ UNCHANGED db
       ELSE IF ~b.next THEN Exchange(req, NotReached, b.res) /\ UNCHANGED db
       ELSE \E r \in {UpdateTask(p.data.id.v, [status |-> b.data.status])} :
              IF r.err = ""
              THEN /\ tasks' = r.tasks
                   /\ UNCHANGED <<contacts, projects, projectMembers, seq>>
                   /\ Exchange(req, Reached(p.data, b.data),
                               TaskUpdated(r.rows, "Statut mis à jour"))
              ELSE /\ UNCHANGED db
                   /\ Exchange(req, Reached(p.data, b.data),
                               globalErrorHandler(DriverError(r.err)))

(***************************************************************************)
(* The application (server/index.ts): static files, the API router mounted *)
(* on /api/v1, the redirect of "/", the catch-all of the single-page       *)
(* application and, when nothing has answered, the final handler of        *)
(* Express.  A path is the sequence of its segments.                       *)
(***************************************************************************)
\* The routes of the API router in the order they are declared: the contact,
\* task and project routers, then the health check.
RouteTable ==
  << [method |-> "GET", pattern |-> <<"contact", "list">>, op |-> "GET /contact/list"],
     [method |-> "GET", pattern |-> <<"contact", ":id">>, op |-> "GET /contact/:id"],
     [method |-> "POST", pattern |-> <<"contact">>, op |-> "POST /contact"],
     [method |-> "PUT", pattern |-> <<"contact", ":id">>, op |-> "PUT /contact/:id"],
     [method |-> "DELETE", pattern |-> <<"contact", ":id">>, op |-> "DELETE /contact/:id"],
     [method |-> "GET", pattern |-> <<"task", "list">>, op |-> "GET /task/list"],
     [method |-> "GET", pattern |-> <<"task", ":id">>, op |-> "GET /task/:id"],
     [method |-> "POST", pattern |-> <<"task">>, op |-> "POST /task"],
     [method |-> "PUT", pattern |-> <<"task", ":id">>, op |-> "PUT /task/:id"],
     [method |-> "DELETE", pattern |-> <<"task", ":id">>, op |-> "DELETE /task/:id"],
     [method |-> "PATCH", pattern |-> <<"task", ":id", "status">>, op |-> "PATCH /task/:id/status"],
     [method |-> "GET", pattern |-> <<"project", "list">>, op |-> "GET /project/list"],
     [method |-> "GET", pattern |-> <<"project", ":id">>, op |-> "GET /project/:id"],
     [method |-> "POST", pattern |-> <<"project">>, op |-> "POST /project"],
     [method |-> "PUT", pattern |-> <<"project", ":id">>, op |-> "PUT /project/:id"],
     [method |-> "DELETE", pattern |-> <<"project", ":id">>, op |-> "DELETE /project/:id"],
     [method |-> "POST", pattern |-> <<"project", ":id", "members">>,
      op |-> "POST /project/:id/members"],
     [method |-> "GET", pattern |-> <<"project", ":id", "members">>,
      op |-> "GET /project/:id/members"],
     [method |-> "DELETE", pattern |-> <<"project", ":id", "members", ":contactId">>,
      op |-> "DELETE /project/:id/members/:contactId"],
     [method |-> "GET", pattern |-> <<"health">>, op |-> "GET /health"] >>

\* A path matches a route pattern segment by segment; a parameter (:id)
\* matches any segment that is not empty, and one trailing slash (a last
\* segment that is empty) is ignored.
IsParam(segment) == segment \in {":id", ":contactId"}

Matches(pattern, path) ==
  \E p \in {IF path # <<>> /\ path[Len(path)] = "" THEN SubSeq(path, 1, Len(path) - 1)
            ELSE path} :
    /\ Len(pattern) = Len(p)
    /\ \A i \in DOMAIN pattern :
         IF IsParam(pattern[i]) THEN p[i] # "" ELSE pattern[i] = p[i]

\* The first route of the table that matches, 0 when none does.
Route(method, path) ==
  LET hits == {i \in DOMAIN RouteTable :
                 RouteTable[i].method = method /\ Matches(RouteTable[i].pattern, path)}
  IN IF hits = {} THEN 0 ELSE CHOOSE i \in hits : \A j \in hits : i <= j

\* req.params of a request that route i serves.
ParamsOf(i, path) ==
  LET pattern == RouteTable[i].pattern
      keys == {pattern[k] : k \in {n \in DOMAIN pattern : IsParam(pattern[n])}}
      name(key) == IF key = ":id" THEN "id" ELSE "contactId"
      at(key) == CHOOSE k \in DOMAIN pattern : pattern[k] = key
  IN [p \in {name(key) : key \in keys} |->
        S(path[at(IF p = "id" THEN ":id" ELSE ":contactId")])]

ApiPrefix == <<"api", "v1">>

StartsWith(path, prefix) ==
  Len(path) >= Len(prefix) /\ SubSeq(path, 1, Len(prefix)) = prefix

\* The path as the router mounted on ApiPrefix sees it.
Rest(path) == SubSeq(path, Len(ApiPrefix) + 1, Len(path))

\* The files of the front-end build that express.static serves.
DistFiles == {<<"index.html">>, <<"assets", "index.js">>}

\* What answers a request of the application, in the order of the app.use /
\* app.get calls: a static file, a route of the API (its index in
\* RouteTable), the redirect of "/", the catch-all, or nobody (finalhandler).
app(method, path) ==
  IF method = "GET" /\ (path \in DistFiles \/ (path = <<>> /\ <<"index.html">> \in DistFiles))
  THEN [by |-> "static", route |-> 0]
  ELSE IF StartsWith(path, ApiPrefix) /\ Route(method, Rest(path)) # 0
  THEN [by |-> "api", route |-> Route(method, Rest(path))]
  ELSE IF method = "GET" /\ path = <<>>
  THEN [by |-> "redirect", route |-> 0]
  ELSE IF method = "GET"
  THEN [by |-> "spa", route |-> 0]
  ELSE [by |-> "finalhandler", route |-> 0]

\* The request line of a request, as the logger prints it.
Url(path) == "/" \o Join(path, "/")

HttpReq(method, path) ==
  Spread(Req(method \o " " \o Url(path), EmptyObject, EmptyObject, EmptyObject),
         [method |-> method, path |-> path])

\* The response to a request that no route of the API serves.
appResponse(by, method, path) ==
  CASE by = "static" -> Res(200, [file |-> IF path = <<>> THEN <<"index.html">> ELSE path])
    [] by = "redirect" -> Res(302, [location |-> "http://localhost:3001"])
    [] by = "spa" -> Res(200, [file |-> <<"index.html">>])
    [] by = "finalhandler" -> Res(404, [html |-> "Cannot " \o method \o " " \o Url(path)])

\* A request that no route of the API serves.
AppRequest(method, path) ==
  /\ request = Idle
  /\ UNCHANGED db
  /\ \E a \in {app(method, path)} :
       /\ a.by # "api"
       /\ Exchange(HttpReq(method, path), NotReached, appResponse(a.by, method, path))

\* A request that a route of the API serves: the first route of the table
\* that matches is handed the parameters of the path.
Dispatch(method, path) ==
  \E a \in {app(method, path)} :
    /\ a.by = "api"
    /\ \E op \in {RouteTable[a.route].op}, params \in {ParamsOf(a.route, Rest(path))} :
         \/ op = "GET /contact/list" /\ GetContactList
         \/ op = "GET /contact/:id" /\ GetContact(params)
         \/ op = "DELETE /contact/:id" /\ DeleteContactRoute(params)
         \/ op = "GET /project/list" /\ GetProjectList(EmptyObject)
         \/ op = "GET /project/:id" /\ GetProject(params)
         \/ op = "DELETE /project/:id/members/:contactId" /\ DeleteMemberRoute(params)

(***************************************************************************)
(* The rate limiter (securityMiddleware), the first middleware of the      *)
(* application: it counts the hits of an IP address in the current window  *)
(* and answers 429 itself when the count exceeds the maximum.              *)
(***************************************************************************)
\* A limiter that lets every request through.
LimitedNever(totalHits) == FALSE

Limited(totalHits) == totalHits > RateLimitMax

\* The middlewares of the application in the order of the app.use calls.
Chain == <<"helmet", "rateLimit", "requestLogger", "express.json", "cors",
           "express.static", "routes">>

\* A request from the address ip for the health check, the contact list or
\* a path outside the API, through the whole chain of the application.
Serve(ip, method, path) ==
  /\ request = Idle
  /\ store[ip].hits < RateLimitMax + MaxHitsOver
  /\ UNCHANGED <<db, variant, nodeEnv, now, page, pending>>
  /\ request' = Spread(HttpReq(method, path), [ip |-> ip])
  /\ \E totalHits \in {store[ip].hits + 1}, a \in {app(method, path)} :
       IF Limited(totalHits)
       THEN /\ store' = [store EXCEPT ![ip].hits = totalHits]
            /\ handled' = Spread(NotReached, [ran |-> SubSeq(Chain, 1, 2)])
            /\ response' = Res(429, [text |-> "Too many requests from this IP, please try again later"])
       ELSE /\ store' = [store EXCEPT ![ip].hits = totalHits, ![ip].served = @ + 1]
            /\ handled' = Spread(IF a.by = "api" THEN Reached(EmptyObject, EmptyObject)
                                 ELSE NotReached, [ran |-> Chain])
            /\ response' = IF a.by # "api" THEN appResponse(a.by, method, path)
                           ELSE IF RouteTable[a.route].op = "GET /health"
                                THEN Res(200, [text |-> "Ok"])
                                ELSE contactList

\* The window of the address ip is over: its count starts again.
WindowExpires(ip) ==
  /\ request = Idle
  /\ store[ip].hits > 0
  /\ store' = [store EXCEPT ![ip] = [hits |-> 0, served |-> 0]]
  /\ UNCHANGED <<db, variant, nodeEnv, now, page, pending, request, handled, response>>

\* A request whose body express.json() cannot parse: the body parser hands
\* its error to next(), no route is entered and the global handler answers.
Unparsable == [t |-> "unparsable"]

BodyParserFailure(op, statusCode) ==
  /\ request = Idle
  /\ UNCHANGED db
  /\ Exchange(Req(op, EmptyObject, EmptyObject, Unparsable), NotReached,
              globalErrorHandler(BodyParserError(statusCode)))

\* The response has been sent: the exchange is over.
EndExchange ==
  /\ request # Idle
  /\ request' = Idle
  /\ handled' = NotReached
  /\ response' = Res(0, EmptyObject)
  /\ UNCHANGED <<db, env, now>>

\* Time passes between two requests.
Tick ==
  /\ request = Idle
  /\ now < MaxClock
  /\ now' = now + 1
  /\ UNCHANGED <<db, env, request, handled, response>>

(***************************************************************************)
(* The requests the clients of the model send.                             *)
(***************************************************************************)
Ips == {"10.0.0.1", "10.0.0.2"}

AppMethods == {"GET", "POST", "DELETE"}
AppPaths ==
  {<<>>, <<"contacts">>, <<"assets", "index.js">>,
   <<"api", "v1", "unknown">>, <<"api", "v1", "contact">>, <<"api", "v1", "contact", "list">>,
   <<"api", "v1", "task", "1", "status">>, <<"api", "v1", "contact", "">>,
   <<"api", "v1", "project", "list">>, <<"api", "v1", "project", "1">>,
   <<"api", "v1", "project", "", "members", "1">>,
   <<"api", "v1", "project", "1", "members", "">>}
     \cup {<<"api", "v1", "contact", id>> : id \in {"1", "0", "-1", "1.5", "abc"}}
     \cup {<<"api", "v1", "project", "1", "members", id>> : id \in {"1", "0", "abc"}}

BodyParserStatusCodes == {400, 413}

IdParams == {[id |-> S(s)] : s \in {"1", "2", "9", "abc"}}

MemberParams ==
  {[id |-> S("1"), contactId |-> S(c)] : c \in {"1", "9", "abc"}}

CreateContactBodies ==
  {[firstName |-> S("Jo"), lastName |-> S("Do"), email |-> S(e)] :
      e \in {"a@x.io", "A@x.io", "b@x.io"}}
    \cup {[firstName |-> S(" Jo"), lastName |-> S("Do"), email |-> S("b@x.io"),
           id |-> N(9), createdAt |-> S("2024-01-15"), updatedAt |-> S("2024-01-15")],
          [firstName |-> S("J"), lastName |-> S("Do"), email |-> S("bad")],
          [firstName |-> S("Jo"), email |-> S("a@x.io")]}

UpdateContactBodies ==
  {[email |-> S(e)] : e \in {"a@x.io", "B@x.io"}}
    \cup {[firstName |-> S("Jo "), id |-> N(9)],
          [email |-> S("bad"), lastName |-> S("D")]}

CreateProjectBodies ==
  {[name |-> S("P"), startDate |-> S("2024-01-15")],
   [name |-> S("P"), startDate |-> S("2024-01-15"), status |-> S("archived"), id |-> N(9)],
   [name |-> S("P")],
   [name |-> S(""), startDate |-> S("someday")]}

UpdateProjectBodies ==
  {[status |-> S("archived")], [name |-> S("P"), updatedAt |-> S("2024-06-30")],
   [name |-> S("")]}

AddMemberBodies ==
  {[contactId |-> N(c)] : c \in {1, 2, 9}}
    \cup {[contactId |-> N(1), role |-> S("lead"), id |-> N(9)],
          [contactId |-> N(0)], EmptyObject}

CreateTaskBodies ==
  {[title |-> S("T")],
   [title |-> S("T"), status |-> S("DONE"), priority |-> S("HIGH"),
    assigneeId |-> N(1), projectId |-> N(1)],
   [title |-> S("T"), projectId |-> N(2), id |-> N(9), createdAt |-> S("2024-01-15")],
   [title |-> S("T"), assigneeId |-> N(9)],
   [title |-> S(""), status |-> S("BOGUS")],
   [title |-> S("T"), status |-> S("done")], [title |-> S("T"), priority |-> S("BOGUS")]}

UpdateTaskBodies ==
  {[title |-> S("T")], [assigneeId |-> N(1)], [projectId |-> N(9)],
   [priority |-> S("LOW"), projectId |-> JNull, updatedAt |-> S("2024-06-30")],
   [status |-> S("BOGUS")], [priority |-> S("urgent")], [status |-> JNull]}

UpdateTaskStatusBodies ==
  {[status |-> S(s)] : s \in {"IN_PROGRESS", "DONE", "BOGUS"}} \cup {EmptyObject}

TaskListQueries ==
  {EmptyObject, [status |-> S("TODO")], [status |-> A(<<"TODO", "DONE">>)],
   [priority |-> S("HIGH")], [assigneeId |-> S("1")], [assigneeId |-> S("abc")],
   [projectId |-> S("0")], [status |-> S("DONE"), projectId |-> S("1")]}

ProjectListQueries ==
  {EmptyObject, [status |-> S("active")], [status |-> A(<<"active", "paused">>)]}

(***************************************************************************)
(* The API as a whole.                                                     *)
(***************************************************************************)
Init ==
  /\ variant \in {"sqlite", "pg"}
  /\ nodeEnv \in {"development", "production", ""}   \* "": the variable is unset
  /\ store = [ip \in Ips |-> [hits |-> 0, served |-> 0]]
  /\ page = [name |-> "none"]
  /\ pending = [c \in 1..MaxClients |-> JNull]
  /\ contacts = {}
  /\ projects = {}
  /\ tasks = {}
  /\ projectMembers = {}
  /\ seq = [contact |-> 0, project |-> 0, task |-> 0, member |-> 0]
  /\ now = 0
  /\ request = Idle
  /\ handled = NotReached
  /\ response = Res(0, EmptyObject)

\* The requests of the specification of the whole API: for each route one
\* accepted request, one with keys the schema does not declare, and one that
\* the validation rejects.
Next ==
  \/ GetContactList
  \/ \E params \in IdParams : GetContact(params)
  \/ \E body \in {b \in CreateContactBodies : Get(b, "email") \in {S("a@x.io"), S("bad")} \/ Has(b, "id")} : PostContact(body)
  \/ \E params \in IdParams, body \in {b \in UpdateContactBodies : ~Has(b, "email") \/ b.email = S("bad")} : PutContact(params, body)
  \/ \E params \in IdParams : DeleteContactRoute(params)
  \/ \E query \in ProjectListQueries : GetProjectList(query)
  \/ \E params \in IdParams : GetProject(params)
  \/ \E body \in {b \in CreateProjectBodies : Has(b, "id") \/ ~Has(b, "startDate")} : PostProject(body)
  \/ \E params \in IdParams, body \in {b \in UpdateProjectBodies : Has(b, "name")} : PutProject(params, body)
  \/ \E params \in IdParams : DeleteProjectRoute(params)
  \/ \E params \in IdParams, body \in {b \in AddMemberBodies : Get(b, "contactId") \in {N(1), Undefined}} : PostMember(params, body)
  \/ \E params \in IdParams : GetMembers(params)
  \/ \E params \in MemberParams : DeleteMemberRoute(params)
  \/ \E query \in TaskListQueries : GetTaskList(query)
  \/ \E params \in IdParams : GetTask(params)
  \/ \E body \in {b \in CreateTaskBodies : Has(b, "id") \/ Get(b, "status") \in {S("DONE"), S("BOGUS")}} : PostTask(body)
  \/ \E params \in IdParams, body \in {b \in UpdateTaskBodies : Has(b, "updatedAt") \/ Get(b, "status") = S("BOGUS")} : PutTask(params, body)
  \/ \E params \in IdParams : DeleteTaskRoute(params)
  \/ \E params \in IdParams, body \in {b \in UpdateTaskStatusBodies : Get(b, "status") # S("IN_PROGRESS")} : PatchTaskStatus(params, body)
  \/ EndExchange

\* A deployment with NODE_ENV=production.
InitProduction == Init /\ nodeEnv = "production"

Spec == InitProduction /\ [][Next]_vars

(***************************************************************************)
(* The contact resource alone, with every request on contacts.             *)
(***************************************************************************)
NextContacts ==
  \/ GetContactList
  \/ \E params \in IdParams : GetContact(params)
  \/ \E body \in CreateContactBodies : PostContact(body)
  \/ \E params \in IdParams, body \in UpdateContactBodies : PutContact(params, body)
  \/ \E params \in IdParams : DeleteContactRoute(params)
  \/ EndExchange

SpecContacts == Init /\ [][NextContacts]_vars

(***************************************************************************)
(* Projects with their members and tasks: every request on projects and    *)
(* members, and the requests that create the contacts and the tasks they   *)
(* refer to.                                                               *)
(***************************************************************************)
NextProjects ==
  \/ \E body \in {b \in CreateContactBodies : DOMAIN b = {"firstName", "lastName", "email"}} :
       PostContact(body)
  \/ \E query \in ProjectListQueries : GetProjectList(query)
  \/ \E params \in IdParams : GetProject(params)
  \/ \E body \in CreateProjectBodies : PostProject(body)
  \/ \E params \in IdParams, body \in UpdateProjectBodies : PutProject(params, body)
  \/ \E params \in IdParams : DeleteProjectRoute(params)
  \/ \E params \in IdParams, body \in AddMemberBodies : PostMember(params, body)
  \/ \E params \in IdParams : GetMembers(params)
  \/ \E params \in MemberParams : DeleteMemberRoute(params)
  \/ \E body \in {b \in CreateTaskBodies : ~Has(b, "assigneeId")} : PostTask(body)
  \/ EndExchange

SpecProjects == InitProduction /\ [][NextProjects]_vars

(***************************************************************************)
(* Tasks over time: every request on tasks, the requests that create the   *)
(* contact and the project a task refers to, and the clock.                *)
(***************************************************************************)
NextTasks ==
  \/ \E body \in {b \in CreateContactBodies : b.email = S("a@x.io") /\ Has(b, "lastName")} :
       PostContact(body)
  \/ \E body \in {b \in CreateProjectBodies : DOMAIN b = {"name", "startDate"}} :
       PostProject(body)
  \/ \E query \in TaskListQueries : GetTaskList(query)
  \/ \E params \in IdParams : GetTask(params)
  \/ \E body \in CreateTaskBodies : PostTask(body)
  \/ \E params \in IdParams, body \in UpdateTaskBodies : PutTask(params, body)
  \/ \E params \in IdParams : DeleteTaskRoute(params)
  \/ \E params \in IdParams, body \in UpdateTaskStatusBodies : PatchTaskStatus(params, body)
  \/ Tick
  \/ EndExchange

SpecTasks == Init /\ [][NextTasks]_vars

(***************************************************************************)
(* The errors that reach the global handler: the errors of the body parser *)
(* and the errors of the database driver that a route does not catch,      *)
(* under every NODE_ENV and both variants of the routes.                   *)
(***************************************************************************)
NextErrors ==
  \/ \E body \in {b \in CreateContactBodies : DOMAIN b = {"firstName", "lastName", "email"}} :
       PostContact(body)
  \/ \E body \in CreateTaskBodies : PostTask(body)
  \/ \E params \in IdParams, body \in UpdateTaskBodies : PutTask(params, body)
  \/ \E op \in {"POST /contact", "PUT /task/:id"}, statusCode \in BodyParserStatusCodes : BodyParserFailure(op, statusCode)
  \/ EndExchange

SpecErrors == Init /\ [][NextErrors]_vars

(***************************************************************************)
(* The task list: tasks of every priority, with and without a due date,    *)
(* created at different times, and the requests that list them.            *)
(***************************************************************************)
NextTaskList ==
  \/ \E body \in {[title |-> S("T"), priority |-> S(p)] : p \in PRIORITIES}
                  \cup {[title |-> S("T"), priority |-> S("HIGH"), dueDate |-> S(d)] :
                           d \in {"2024-01-15", "2024-06-30"}} :
        PostTaskUpTo(body, MaxListedTasks)
  \/ \E query \in {EmptyObject, [priority |-> S("HIGH")]} : GetTaskList(query)
  \/ Tick
  \/ EndExchange

SpecTaskList == InitProduction /\ [][NextTaskList]_vars

(***************************************************************************)
(* The application in front of the API: the requests that no route of the  *)
(* API serves, next to requests on contacts.                               *)
(***************************************************************************)
NextApp ==
  \/ \E method \in AppMethods, path \in AppPaths : AppRequest(method, path)
  \/ \E method \in AppMethods, path \in AppPaths : Dispatch(method, path)
  \/ \E body \in CreateContactBodies : PostContact(body)
  \/ EndExchange

SpecApp == Init /\ [][NextApp]_vars

(***************************************************************************)
(* Handlers interleaved at their awaits.  A handler of connection c that   *)
(* has run its first statement and waits to run its second one is kept in  *)
(* pending[c]; every other route runs between the two as one step.         *)
(***************************************************************************)
\* POST /api/v1/task up to the end of the INSERT of taskService.create, for
\* a body that is valid and an INSERT that succeeds.
PostTaskWrites(c, body) ==
  /\ request = Idle /\ pending[c] = JNull
  /\ seq.task < MaxTasks
  /\ \E b \in {validate(CreateTaskSchema, body)} :
       /\ b.next
       /\ \E r \in {InsertTask(b.data)} :
            /\ r.err = ""
            /\ tasks' = r.tasks
            /\ seq' = r.seq
            /\ pending' = [pending EXCEPT ![c] =
                  [req |-> Req("POST /task", EmptyObject, EmptyObject, body),
                   handled |-> Reached(EmptyObject, b.data), step |-> "written",
                   id |-> (CHOOSE t \in r.rows : TRUE).id,
                   status |-> 201, message |-> "Tâche créée avec succès"]]
  /\ UNCHANGED <<contacts, projects, projectMembers, variant, nodeEnv, store, page, now,
                 request, handled, response>>

\* PUT /api/v1/task/:id up to the end of the UPDATE of taskService.update,
\* for a request that is valid and an UPDATE that returns a row.
PutTaskWrites(c, params, body) ==
  /\ request = Idle /\ pending[c] = JNull
  /\ \E p \in {validate(IdParamSchema, params)}, b \in {validate(UpdateTaskSchema, body)} :
       /\ p.next /\ b.next
       /\ \E r \in {UpdateTask(p.data.id.v, b.data)} :
            /\ r.err = "" /\ r.rows # {}
            /\ tasks' = r.tasks
            /\ pending' = [pending EXCEPT ![c] =
                  [req |-> Req("PUT /task/:id", params, EmptyObject, body),
                   handled |-> Reached(p.data, b.data), step |-> "written",
                   id |-> p.data.id.v,
                   status |-> 200, message |-> "Tâche mise à jour avec succès"]]
  /\ UNCHANGED <<contacts, projects, projectMembers, seq, variant, nodeEnv, store, page, now,
                 request, handled, response>>

\* The second statement of create and update: the task is read again with
\* its relations; an Error is thrown when it is not found, which neither
\* route catches (its code is not that of a foreign key violation).
getTaskWithRelations(c) ==
  /\ request = Idle /\ pending[c] # JNull /\ pending[c].step = "written"
  /\ request' = pending[c].req
  /\ handled' = pending[c].handled
  /\ response' =
       IF \E t \in tasks : t.id = pending[c].id
       THEN Res(pending[c].status,
                successResponse(TaskWithDetails(CHOOSE t \in tasks : t.id = pending[c].id,
                                                contacts, projects), pending[c].message))
       ELSE globalErrorHandler([code |-> "", statusCode |-> 0,
                                message |-> "Erreur interne : Tâche introuvable après écriture."])
  /\ pending' = [pending EXCEPT ![c] = JNull]
  /\ UNCHANGED <<db, variant, nodeEnv, store, page, now>>

\* The contact routes written for Prisma, up to the end of
\* contactService.findById: PUT and DELETE /api/v1/contact/:id answer 404
\* when the contact is not found and go on to the write otherwise.
PrismaContactFinds(c, op, params, body) ==
  /\ request = Idle /\ pending[c] = JNull
  /\ \E req \in {Req(op, params, EmptyObject, body)},
        p \in {validate(IdParamSchema, params)},
        b \in {IF op = "PUT /contact/:id" THEN validate(UpdateContactSchema, body)
               ELSE [next |-> TRUE, data |-> EmptyObject]} :
       /\ p.next /\ b.next
       /\ IF \E k \in contacts : k.id = p.data.id.v
          THEN /\ pending' = [pending EXCEPT ![c] =
                     [req |-> req, handled |-> Reached(p.data, b.data), step |-> "found",
                      id |-> p.data.id.v, status |-> 200,
                      message |-> IF op = "PUT /contact/:id" THEN "Contact mis à jour"
                                  ELSE "Contact supprimé avec succès"]]
               /\ UNCHANGED <<request, handled, response>>
          ELSE /\ request' = req
               /\ handled' = Reached(p.data, b.data)
               /\ response' = Res(404, errorResponse(
                                 IF op = "PUT /contact/:id"
                                 THEN "Contact introuvable pour mise à jour"
                                 ELSE "Contact introuvable"))
               /\ UNCHANGED pending
  /\ UNCHANGED <<db, variant, nodeEnv, store, page, now>>

\* The write of the same routes: contactService.update or delete.  Prisma
\* throws P2025 when the record is not there any more; the PUT route
\* catches P2002 only and the DELETE route catches nothing.
PrismaContactActs(c) ==
  /\ request = Idle /\ pending[c] # JNull /\ pending[c].step = "found"
  /\ request' = pending[c].req
  /\ handled' = pending[c].handled
  /\ pending' = [pending EXCEPT ![c] = JNull]
  /\ UNCHANGED <<projects, seq, variant, nodeEnv, store, page, now>>
  /\ IF ~\E k \in contacts : k.id = pending[c].id
     THEN /\ response' = globalErrorHandler(DriverError("P2025"))
          /\ UNCHANGED <<contacts, tasks, projectMembers>>
     ELSE IF pending[c].req.op = "DELETE /contact/:id"
     THEN \E r \in {DeleteContact(pending[c].id)} :
            /\ contacts' = r.contacts
            /\ tasks' = r.tasks
            /\ projectMembers' = r.projectMembers
            /\ response' = Res(200, successResponse(JNull, pending[c].message))
     ELSE \E r \in {UpdateContact(pending[c].id, pending[c].handled.body)} :
            /\ UNCHANGED <<tasks, projectMembers>>
            /\ IF r.err = ""
               THEN /\ contacts' = r.contacts
                    /\ response' = Res(200, successResponse(CHOOSE k \in r.rows : TRUE,
                                                            pending[c].message))
               ELSE /\ UNCHANGED contacts
                    /\ response' = Res(409, errorResponse(
                                      "Cet email est déjà associé à un autre contact"))

NextRaces ==
  \/ \E body \in {b \in CreateContactBodies : b.email = S("a@x.io") /\ Has(b, "lastName")} :
       PostContact(body)
  \/ \E body \in {b \in CreateProjectBodies : DOMAIN b = {"name", "startDate"}} :
       PostProject(body)
  \/ \E c \in 1..MaxClients, body \in {[title |-> S("T")], [title |-> S("T"), projectId |-> N(1)]} :
       PostTaskWrites(c, body)
  \/ \E c \in 1..MaxClients : PutTaskWrites(c, [id |-> S("1")], [title |-> S("T")])
  \/ \E c \in 1..MaxClients : getTaskWithRelations(c)
  \/ DeleteTaskRoute([id |-> S("1")])
  \/ DeleteProjectRoute([id |-> S("1")])
  \/ \E c \in 1..MaxClients, op \in {"PUT /contact/:id", "DELETE /contact/:id"} :
       PrismaContactFinds(c, op, [id |-> S("1")], [firstName |-> S("Al")])
  \/ \E c \in 1..MaxClients : PrismaContactActs(c)
  \/ EndExchange

SpecRaces == InitProduction /\ [][NextRaces]_vars

(***************************************************************************)
(* The Home page of the client, in its two versions: initDashboard of      *)
(* Home.tsx lets a failed request reject, checkDatabaseConnection of the   *)
(* older page replaces a failed list request by an empty list.  The server *)
(* is seen from the client: the health route answers 200 whenever the      *)
(* server runs, a list route answers 200 only if the database is reached.  *)
(***************************************************************************)
Lists == {"contact", "task", "project"}

\* useEffect(() => { initDashboard() }, []) or checkDatabaseConnection():
\* the state is 'checking' and the health ping is sent.
HomeMount(component, serverUp, database) ==
  /\ \/ page.name = "none"
     \/ /\ page.name = "Home" /\ page.dbStatus = "error" /\ page.pending = {}
        /\ page.pc = "done" /\ component = page.component
  /\ page' = [name |-> "Home", component |-> component, serverUp |-> serverUp,
              database |-> database, dbStatus |-> "checking", stats |-> JNull,
              pc |-> "health", pending |-> {"health"}, lengths |-> <<>>]
  /\ UNCHANGED <<db, variant, nodeEnv, store, now, pending, request, handled, response>>

\* The health ping settles: the list requests are sent, or the catch block
\* sets 'error'.
HomeHealthSettles ==
  /\ page.name = "Home" /\ page.pc = "health"
  /\ page' = IF page.serverUp
             THEN [page EXCEPT !.pc = "lists", !.pending = Lists]
             ELSE [page EXCEPT !.pc = "done", !.pending = {}, !.dbStatus = "error"]
  /\ UNCHANGED <<db, variant, nodeEnv, store, now, pending, request, handled, response>>

\* One list request settles, with n rows when it succeeds.  A rejection
\* rejects the Promise.all of Home.tsx at once; the older page has replaced
\* it by { data: { data: [] } }.  When the Promise.all is fulfilled the
\* counts are set and the state is 'connected'.
HomeListSettles(l, n) ==
  /\ page.name = "Home" /\ page.pc \in {"lists", "done"} /\ l \in page.pending
  /\ \E ok \in {page.serverUp /\ page.database} :
     \E lengths \in {IF ok THEN (l :> n) @@ page.lengths
                     ELSE IF page.component = "checkDatabaseConnection"
                          THEN (l :> 0) @@ page.lengths ELSE page.lengths} :
       page' =
         IF page.pc = "done" THEN [page EXCEPT !.pending = @ \ {l}]
         ELSE IF ~ok /\ page.component = "initDashboard"
         THEN [page EXCEPT !.pending = @ \ {l}, !.pc = "done", !.dbStatus = "error"]
         ELSE IF DOMAIN lengths = Lists
         THEN [page EXCEPT !.pending = {}, !.lengths = lengths, !.pc = "done",
                           !.stats = [contacts |-> lengths["contact"],
                                      tasks |-> lengths["task"],
                                      projects |-> lengths["project"]],
                           !.dbStatus = "connected"]
         ELSE [page EXCEPT !.pending = @ \ {l}, !.lengths = lengths]
  /\ UNCHANGED <<db, variant, nodeEnv, store, now, pending, request, handled, response>>

(***************************************************************************)
(* The Tasks page of the client.  The local list maps the id of each card  *)
(* to the status it shows; patch is the PATCH request in flight, if any.   *)
(***************************************************************************)
\* fetchTasks: the list of the server replaces the local list.
fetchTasks(list) ==
  /\ page.name = "none"
  /\ page' = [name |-> "Tasks", tasks |-> list, loading |-> FALSE, patch |-> JNull,
              toast |-> ""]
  /\ UNCHANGED <<db, variant, nodeEnv, store, now, pending, request, handled, response>>

\* handleStatusChange up to its await: the PATCH request is sent, the local
\* list is not touched.
handleStatusChange(taskId, newStatus) ==
  /\ page.name = "Tasks" /\ page.patch = JNull /\ taskId \in DOMAIN page.tasks
  /\ page' = [page EXCEPT !.patch = [taskId |-> taskId, status |-> newStatus],
                          !.toast = ""]
  /\ UNCHANGED <<db, variant, nodeEnv, store, now, pending, request, handled, response>>

\* handleStatusChange after its await: on success the status of the card is
\* replaced, on failure (axios rejects) only a toast is shown.
handleStatusChangeResumes(success) ==
  /\ page.name = "Tasks" /\ page.patch # JNull
  /\ page' = IF success
             THEN [page EXCEPT !.tasks[page.patch.taskId] = page.patch.status,
                               !.patch = JNull, !.toast = "Statut mis à jour"]
             ELSE [page EXCEPT !.patch = JNull,
                               !.toast = "Échec de la mise à jour du statut"]
  /\ UNCHANGED <<db, variant, nodeEnv, store, now, pending, request, handled, response>>

\* The client: one of the two pages is mounted and runs.
NextClient ==
  \/ \E component \in {"initDashboard", "checkDatabaseConnection"},
        serverUp \in BOOLEAN, database \in BOOLEAN :
        HomeMount(component, serverUp, database)
  \/ HomeHealthSettles
  \/ \E l \in Lists, n \in 0..MaxContacts : HomeListSettles(l, n)
  \/ \E list \in [1..MaxContacts -> TASK_STATUSES] : fetchTasks(list)
  \/ \E taskId \in 1..MaxContacts, newStatus \in TASK_STATUSES :
        handleStatusChange(taskId, newStatus)
  \/ \E success \in BOOLEAN : handleStatusChangeResumes(success)

SpecClient == InitProduction /\ [][NextClient]_vars

(***************************************************************************)
(* The rate limiter in front of the health check, the contact list and a   *)
(* static file, for two client addresses.                                  *)
(***************************************************************************)
NextLimiter ==
  \/ \E ip \in Ips, path \in {<<"api", "v1", "health">>, <<"api", "v1", "contact", "list">>,
                               <<"assets", "index.js">>} : Serve(ip, "GET", path)
  \/ \E ip \in Ips : WindowExpires(ip)
  \/ EndExchange

SpecLimiter == InitProduction /\ [][NextLimiter]_vars

(***************************************************************************)
(* The route table: the schema each route hands to validate for req.params *)
(* and for req.body (the empty schema where the route validates nothing).  *)
(***************************************************************************)
ParamsSchemaOf(op) ==
  CASE op \in {"GET /contact/:id", "PUT /contact/:id", "DELETE /contact/:id",
               "GET /project/:id", "PUT /project/:id", "DELETE /project/:id",
               "POST /project/:id/members", "GET /project/:id/members",
               "GET /task/:id", "PUT /task/:id", "DELETE /task/:id",
               "PATCH /task/:id/status"} -> IdParamSchema
    [] op = "DELETE /project/:id/members/:contactId" -> RemoveMemberParamsSchema
    [] OTHER -> <<>>

BodySchemaOf(op) ==
  CASE op = "POST /contact" -> CreateContactSchema
    [] op = "PUT /contact/:id" -> UpdateContactSchema
    [] op = "POST /project" -> CreateProjectSchema
    [] op = "PUT /project/:id" -> UpdateProjectSchema
    [] op = "POST /project/:id/members" -> AddMemberSchema
    [] op = "POST /task" -> CreateTaskSchema
    [] op = "PUT /task/:id" -> UpdateTaskSchema
    [] op = "PATCH /task/:id/status" -> UpdateTaskStatusSchema
    [] OTHER -> <<>>

(***************************************************************************)
(* Properties of the API.                                                  *)
(***************************************************************************)
\* C1: POST /contact with a valid body whose email (as the schema normalises
\* it) is the email of a stored contact is answered 409, and the stored
\* contacts stay as they were.
C1_DuplicateEmailConflict ==
  [][(request = Idle /\ request'.op = "POST /contact") =>
       LET parsed == ParseObject(CreateContactSchema, request'.body) IN
       (parsed.issues = <<>> /\ \E c \in contacts : c.email = parsed.data.email.v)
         => (response'.status = 409 /\ ~response'.body.success /\ contacts' = contacts)]_vars

\* A duplicate email, written in another case, has been refused.
C1_Witness ==
  /\ request.op = "POST /contact"
  /\ response.status = 409
  /\ request.body.email = S("A@x.io")
  /\ \E c \in contacts : c.email = "a@x.io"

\* C2: after a successful DELETE /project/:id the project, every task of the
\* project and every membership of the project are gone.
C2_DeleteProjectCascades ==
  [][(request = Idle /\ request'.op = "DELETE /project/:id" /\ response'.status = 200) =>
       LET id == NumberOf(request'.params.id.v).v IN
       /\ id \in Ids(projects)
       /\ id \notin Ids(projects')
       /\ \A t \in tasks' : t.projectId # N(id)
       /\ \A m \in projectMembers' : m.projectId # id
       /\ tasks' = {t \in tasks : t.projectId # N(id)}
       /\ projectMembers' = {m \in projectMembers : m.projectId # id}]_vars

\* A project with a task and a member has been deleted: the only task ever
\* created is gone although no request of this specification deletes a task.
C2_Witness ==
  /\ request.op = "DELETE /project/:id"
  /\ response.status = 200
  /\ seq.task = 1 /\ tasks = {}
  /\ seq.member >= 1 /\ projectMembers = {}
  /\ projects # {}

\* C3 as stated: a PATCH /task/:id/status with a status s of TASK_STATUSES
\* that is answered 200 returns the task with status s and stores it with
\* every other field as before; a GET /task/:id returns the stored status,
\* and the stored status of a task changes only by a PUT or a PATCH on it.
C3_PatchKeepsEveryOtherField ==
  [][request = Idle /\ request' # Idle =>
       LET id == NumberOf(request'.params.id.v).v
           old == CHOOSE t \in tasks : t.id = id
           new == CHOOSE t \in tasks' : t.id = id
       IN /\ (request'.op = "PATCH /task/:id/status" /\ response'.status = 200) =>
               /\ request'.body.status.v \in TASK_STATUSES
               /\ response'.body.data.status = request'.body.status.v
               /\ new = [old EXCEPT !.status = request'.body.status.v]
          /\ (request'.op = "GET /task/:id" /\ response'.status = 200) =>
               response'.body.data.status = old.status
          /\ \A t \in tasks, u \in tasks' :
               (u.id = t.id /\ u.status # t.status) =>
                 /\ request'.op \in {"PUT /task/:id", "PATCH /task/:id/status"}
                 /\ t.id = id]_vars

\* C3 as the code has it: the PATCH also sets updatedAt to the time of the
\* request; every field other than status and updatedAt is as before.
C3_PatchKeepsOtherFieldsButUpdatedAt ==
  [][request = Idle /\ request' # Idle =>
       LET id == NumberOf(request'.params.id.v).v
           old == CHOOSE t \in tasks : t.id = id
           new == CHOOSE t \in tasks' : t.id = id
       IN /\ (request'.op = "PATCH /task/:id/status" /\ response'.status = 200) =>
               /\ request'.body.status.v \in TASK_STATUSES
               /\ response'.body.data.status = request'.body.status.v
               /\ new = [old EXCEPT !.status = request'.body.status.v, !.updatedAt = now]
               /\ \A k \in DOMAIN new : response'.body.data[k] = new[k]
          /\ (request'.op = "GET /task/:id" /\ response'.status = 200) =>
               response'.body.data.status = old.status
          /\ \A t \in tasks, u \in tasks' :
               (u.id = t.id /\ u.status # t.status) =>
                 /\ request'.op \in {"PUT /task/:id", "PATCH /task/:id/status"}
                 /\ t.id = id]_vars

\* A task created with priority HIGH at time 0 has been patched to
\* IN_PROGRESS at a later time.
C3_Witness ==
  /\ request.op = "PATCH /task/:id/status"
  /\ response.status = 200
  /\ response.body.data.status = "IN_PROGRESS"
  /\ response.body.data.priority = "HIGH"
  /\ response.body.data.createdAt < response.body.data.updatedAt

\* C4: GET /task/list returns exactly the stored tasks that match every
\* supplied parameter, and GET /project/list the projects with the supplied
\* status; a supplied parameter is never ignored.  A task matches a repeated
\* parameter when it matches one of its values, and the answer to a query
\* with a repeated parameter is only required to hold no task that matches none.
C4_ListFiltersAreApplied ==
  LET values(x) == IF x.t = "array" THEN {x.v[i] : i \in DOMAIN x.v} ELSE {x.v}
      matches(row, k, x) ==
        IF k \in {"assigneeId", "projectId"}
        THEN \E s \in values(x) : ~NumberOf(s).nan /\ row[k] = N(NumberOf(s).v)
        ELSE row[k] \in values(x)
      selected(table) ==
        {r \in table : \A k \in DOMAIN request.query : matches(r, k, request.query[k])}
      single == \A k \in DOMAIN request.query : request.query[k].t = "string"
  IN /\ request.op = "GET /task/list" =>
          LET expected == {TaskWithDetails(t, contacts, projects) : t \in selected(tasks)}
              returned == {response.body.data[i] : i \in DOMAIN response.body.data}
          IN /\ returned \subseteq expected
             /\ single => returned = expected
     /\ request.op = "GET /project/list" =>
          LET returned == {p.id : p \in response.body.data}
          IN /\ returned \subseteq Ids(selected(projects))
             /\ single => returned = Ids(selected(projects))

\* C5: every JSON response of the API has the envelope fields success, data,
\* message and timestamp.
C5_UniformEnvelope ==
  request # Idle => {"success", "data", "message", "timestamp"} \subseteq DOMAIN response.body

\* C6: when req.params or req.body does not satisfy the schema of the route,
\* the answer is 400 with success=false and one {field, message} entry per
\* issue of the part that failed, the handler is not invoked and the
\* database is unchanged.
C6_InvalidRequestRejected ==
  [][(request = Idle /\ request' # Idle) =>
       LET inParams == ParseObject(ParamsSchemaOf(request'.op), request'.params).issues
           inBody == ParseObject(BodySchemaOf(request'.op), request'.body).issues
           issues == IF inParams # <<>> THEN inParams ELSE inBody
       IN issues # <<>> =>
            /\ response'.status = 400
            /\ response'.body.success = FALSE
            /\ Len(response'.body.errors) = Len(issues)
            /\ \A i \in DOMAIN issues :
                 response'.body.errors[i] =
                   [field |-> issues[i].path[1], message |-> issues[i].message]
            /\ ~handled'.reached
            /\ db' = db]_vars

\* A body with two issues (firstName too short, email malformed) has been
\* refused with two entries.
C6_Witness ==
  /\ request.op = "POST /contact"
  /\ response.status = 400
  /\ ~handled.reached
  /\ Len(response.body.errors) = 2
  /\ {response.body.errors[i].field : i \in 1..2} = {"firstName", "email"}

\* C7: the params and the body the handler is handed hold only keys of the
\* route's schema, never id, createdAt or updatedAt in a body; the id of a
\* new row is the next value of the table's counter and the timestamps of a
\* task are those of the stored row or the time of the request.
C7_HandlerSeesOnlySchemaKeys ==
  [][handled'.reached =>
       /\ DOMAIN handled'.params \subseteq SchemaKeys(ParamsSchemaOf(request'.op))
       /\ DOMAIN handled'.body \subseteq SchemaKeys(BodySchemaOf(request'.op)) \ SystemKeys
       /\ Ids(contacts') \subseteq Ids(contacts) \cup {seq.contact + 1}
       /\ Ids(projects') \subseteq Ids(projects) \cup {seq.project + 1}
       /\ Ids(tasks') \subseteq Ids(tasks) \cup {seq.task + 1}
       /\ \A u \in tasks' :
            /\ u.createdAt \in {t.createdAt : t \in {x \in tasks : x.id = u.id}} \cup {now}
            /\ u.updatedAt \in {t.updatedAt : t \in {x \in tasks : x.id = u.id}} \cup {now}]_vars

\* A contact has been created from a body that carried an id: the stored
\* contact has the id of the counter.
C7_Witness ==
  /\ request.op = "POST /contact"
  /\ Has(request.body, "id")
  /\ handled.reached
  /\ response.status = 201
  /\ response.body.data.id = seq.contact
  /\ response.body.data.id # request.body.id.v

C9_OneMembershipPerPair ==
  [][/\ \A m1, m2 \in projectMembers' :
          (m1.contactId = m2.contactId /\ m1.projectId = m2.projectId) => m1 = m2
     /\ (request = Idle /\ request'.op = "POST /project/:id/members") =>
          LET params == ParseObject(IdParamSchema, request'.params)
              body == ParseObject(AddMemberSchema, request'.body)
          IN (/\ params.issues = <<>>
              /\ body.issues = <<>>
              /\ \E m \in projectMembers : /\ m.projectId = params.data.id.v
                                           /\ m.contactId = body.data.contactId.v)
               => (/\ response'.status = 409
                   /\ ~response'.body.success
                   /\ projectMembers' = projectMembers)]_vars

\* A member of a project has been added a second time, with another role.
C9_Witness ==
  /\ request.op = "POST /project/:id/members"
  /\ response.status = 409
  /\ Has(request.body, "role")
  /\ \E m \in projectMembers : /\ m.projectId = handled.params.id.v
                               /\ m.contactId = handled.body.contactId.v
                               /\ m.role # handled.body.role.v

\* C10: a POST /project/:id/members whose project id or contactId is the id
\* of no stored row is answered 404 and creates no ProjectMember row.
C10_MemberOfMissingRecord ==
  [][(request = Idle /\ request'.op = "POST /project/:id/members") =>
       LET params == ParseObject(IdParamSchema, request'.params)
           body == ParseObject(AddMemberSchema, request'.body)
       IN (/\ params.issues = <<>>
           /\ body.issues = <<>>
           /\ \/ params.data.id.v \notin Ids(projects)
              \/ body.data.contactId.v \notin Ids(contacts))
            => (/\ response'.status = 404
                /\ ~response'.body.success
                /\ projectMembers' = projectMembers
                /\ seq' = seq)]_vars

\* Both cases have a witness: the project is missing, or the contact is.
C10_Witness ==
  /\ request.op = "POST /project/:id/members"
  /\ response.status = 404
  /\ handled.params.id.v \in Ids(projects)
  /\ handled.body.contactId.v \notin Ids(contacts)
  /\ contacts # {}

\* C11: a POST /task with a body the schema accepts whose assigneeId or
\* projectId is the id of no stored contact or project is answered 400 with
\* success=false and creates no task.
C11_TaskOfMissingRecord ==
  [][(request = Idle /\ request'.op = "POST /task") =>
       LET body == ParseObject(CreateTaskSchema, request'.body)
           dangling(k, parent) ==
             /\ Has(body.data, k)
             /\ body.data[k] # JNull
             /\ body.data[k].v \notin Ids(parent)
       IN (/\ body.issues = <<>>
           /\ dangling("assigneeId", contacts) \/ dangling("projectId", projects))
            => (/\ response'.status = 400
                /\ ~response'.body.success
                /\ tasks' = tasks
                /\ seq' = seq)]_vars

\* A task for a project that does not exist has been refused while a project
\* with another id exists.
C11_Witness ==
  /\ request.op = "POST /task"
  /\ response.status = 400
  /\ handled.reached
  /\ Has(handled.body, "projectId")
  /\ handled.body.projectId.v \notin Ids(projects)
  /\ projects # {}
  /\ tasks = {}

\* C12: a PUT /task/:id on a stored task with a body the schema accepts whose
\* assigneeId or projectId is the id of no stored contact or project is
\* answered 400 with success=false and leaves the tasks as they were, in the
\* SQLite variant of the routes as in the Postgres variant.
C12_PutTaskOfMissingRecord ==
  [][(request = Idle /\ request'.op = "PUT /task/:id") =>
       LET params == ParseObject(IdParamSchema, request'.params)
           body == ParseObject(UpdateTaskSchema, request'.body)
           dangling(k, parent) ==
             /\ Has(body.data, k)
             /\ body.data[k] # JNull
             /\ body.data[k].v \notin Ids(parent)
       IN (/\ params.issues = <<>>
           /\ body.issues = <<>>
           /\ params.data.id.v \in Ids(tasks)
           /\ dangling("assigneeId", contacts) \/ dangling("projectId", projects))
            => (/\ response'.status = 400
                /\ ~response'.body.success
                /\ tasks' = tasks)]_vars

\* C13 as stated: every error that reaches the global error handler is
\* answered with status 500.
C13_GlobalHandlerAnswers500 ==
  (request # Idle /\ Has(response, "error")) => response.status = 500

\* C13 as the code has it: the global error handler answers with the
\* statusCode of the error when the error carries one (the errors of the body
\* parser: 400, 413) and with 500 otherwise (the errors of the database
\* driver that escape a route handler); the body has success=false.
C13_GlobalHandlerAnswersStatusCodeOr500 ==
  (request # Idle /\ Has(response, "error")) =>
     /\ response.status = IF response.error.statusCode # 0 THEN response.error.statusCode ELSE 500
     /\ (response.error.code # "" => response.status = 500)
     /\ (request.body = Unparsable => response.status \in BodyParserStatusCodes)
     /\ response.body.success = FALSE

\* A foreign key violation has escaped the SQLite PUT /task/:id and has been
\* answered 500.
C13_Witness ==
  /\ request.op = "PUT /task/:id"
  /\ handled.reached
  /\ Has(response, "error")
  /\ response.error.code = "SQLITE_CONSTRAINT_FOREIGNKEY"
  /\ response.status = 500

\* C14: the response of the global error handler holds the stack of the error
\* if and only if NODE_ENV is 'development' (not when it is unset, nor in
\* production), and no other response holds a stack.
C14_StackOnlyInDevelopment ==
  request # Idle =>
    (Has(response.body, "stack") <=> (Has(response, "error") /\ nodeEnv = "development"))

\* An error of the database driver has been answered with its stack in
\* development.
C14_Witness ==
  /\ nodeEnv = "development"
  /\ Has(response, "error")
  /\ response.error.code # ""
  /\ Has(response.body, "stack")
  /\ response.status = 500

\* C15: after a DELETE /contact/:id answered 200 the contact is gone, every
\* task that was assigned to it is still stored with assigneeId null and its
\* other fields as before, every other task is as before, the ProjectMember
\* rows of the contact are removed and no other, and no project is removed.
C15_DeleteContactSetsNull ==
  [][(request = Idle /\ request'.op = "DELETE /contact/:id" /\ response'.status = 200) =>
       LET id == NumberOf(request'.params.id.v).v IN
       /\ id \in Ids(contacts)
       /\ contacts' = {c \in contacts : c.id # id}
       /\ tasks' = {IF t.assigneeId = N(id) THEN [t EXCEPT !.assigneeId = JNull] ELSE t
                      : t \in tasks}
       /\ Ids(tasks') = Ids(tasks)
       /\ projectMembers' = {m \in projectMembers : m.contactId # id}
       /\ projects' = projects]_vars

\* A contact that was the assignee of a task and a member of a project has
\* been deleted: the task is stored without assignee, the membership is gone.
C15_Witness ==
  /\ request.op = "DELETE /contact/:id"
  /\ response.status = 200
  /\ \E t \in tasks : t.assigneeId = JNull /\ t.priority = "HIGH" /\ t.projectId # JNull
  /\ seq.member >= 1 /\ projectMembers = {}
  /\ projects # {}

\* C16: in every state the API reaches from the empty database, the
\* assigneeId of every task is null or the id of a stored contact, the
\* projectId of every task is null or the id of a stored project, and every
\* ProjectMember row refers to a stored contact and a stored project.
C16_RelationalIntegrity ==
  /\ \A t \in tasks :
       /\ t.assigneeId = JNull \/ \E c \in contacts : t.assigneeId = N(c.id)
       /\ t.projectId = JNull \/ \E p \in projects : t.projectId = N(p.id)
  /\ \A m \in projectMembers :
       /\ \E c \in contacts : m.contactId = c.id
       /\ \E p \in projects : m.projectId = p.id

\* A contact has been deleted while another contact is still the assignee of
\* a task and a member of a project.
C16_Witness ==
  /\ request.op = "DELETE /contact/:id"
  /\ response.status = 200
  /\ \E t \in tasks : t.assigneeId # JNull /\ t.projectId # JNull
  /\ projectMembers # {}

\* C17: a PUT /task/:id or PUT /project/:id answered 200 is a partial
\* update: every stored field whose key is absent from the request body
\* (other than the updatedAt the database maintains) keeps its value; a body
\* without status and priority leaves the stored status and priority as
\* they were.
C17_PutIsPartialUpdate ==
  [][(request = Idle /\ request'.op \in {"PUT /task/:id", "PUT /project/:id"}
        /\ response'.status = 200) =>
       LET id == NumberOf(request'.params.id.v).v
           table == IF request'.op = "PUT /task/:id" THEN tasks ELSE projects
           table2 == IF request'.op = "PUT /task/:id" THEN tasks' ELSE projects'
           old == CHOOSE r \in table : r.id = id
           new == CHOOSE r \in table2 : r.id = id
       IN \A k \in DOMAIN old \ ({"updatedAt"} \cup DOMAIN request'.body) : new[k] = old[k]]_vars

\* C18: the list GET /task/list returns is sorted by priority from URGENT
\* down to LOW (URGENT, HIGH, MEDIUM, LOW), then by due date ascending among
\* the tasks that have one, then by creation date descending; no LOW or
\* MEDIUM task comes before a HIGH task.
C18_TaskListOrder ==
  LET rank(s) == CASE s = "LOW" -> 1 [] s = "MEDIUM" -> 2 [] s = "HIGH" -> 3 [] s = "URGENT" -> 4
      data == response.body.data
  IN (request.op = "GET /task/list" /\ response.status = 200) =>
       \A i, j \in DOMAIN data : i < j =>
         /\ rank(data[i].priority) >= rank(data[j].priority)
         /\ (/\ data[i].priority = data[j].priority
             /\ data[i].dueDate # JNull
             /\ data[j].dueDate # JNull) =>
              /\ data[i].dueDate.v <= data[j].dueDate.v
              /\ data[i].dueDate = data[j].dueDate => data[i].createdAt >= data[j].createdAt
         /\ ~(data[i].priority \in {"LOW", "MEDIUM"} /\ data[j].priority = "HIGH")

\* C19: a PUT /contact/:id on a stored contact whose body sets the email (as
\* the schema normalises it) to the email of another stored contact is
\* answered 409 and leaves every contact as it was; a PUT that sets the
\* email the contact already has is answered 200.
C19_PutContactEmail ==
  [][(request = Idle /\ request'.op = "PUT /contact/:id") =>
       LET params == ParseObject(IdParamSchema, request'.params)
           body == ParseObject(UpdateContactSchema, request'.body)
           id == params.data.id.v
           email == body.data.email.v
       IN (/\ params.issues = <<>>
           /\ body.issues = <<>>
           /\ Has(body.data, "email")
           /\ id \in Ids(contacts)) =>
            /\ (\E c \in contacts : c.id # id /\ c.email = email)
                 => (/\ response'.status = 409
                     /\ ~response'.body.success
                     /\ contacts' = contacts)
            /\ (\E c \in contacts : c.id = id /\ c.email = email)
                 => (/\ response'.status = 200
                     /\ response'.body.data.email = email
                     /\ \E c \in contacts' : c.id = id /\ c.email = email)]_vars

\* The email of the other contact, written in another case, has been refused.
C19_Witness ==
  /\ request.op = "PUT /contact/:id"
  /\ response.status = 409
  /\ request.body.email = S("B@x.io")
  /\ \E c \in contacts : c.id # handled.params.id.v /\ c.email = "b@x.io"
  /\ \E c \in contacts : c.id = handled.params.id.v /\ c.email = "a@x.io"

\* C20: a GET /project/:id/members with a valid id of no stored project, be
\* it an id that never existed or the id of a deleted project, is answered
\* 200 with success=true and an empty list, not 404.
C20_MembersOfMissingProject ==
  [][(request = Idle /\ request'.op = "GET /project/:id/members") =>
       LET params == ParseObject(IdParamSchema, request'.params)
       IN (params.issues = <<>> /\ params.data.id.v \notin Ids(projects))
            => (/\ response'.status = 200
                /\ response'.body.success
                /\ response'.body.data = {}
                /\ db' = db)]_vars

\* The members of a deleted project that had a member are listed while
\* another project still has one.
C20_Witness ==
  /\ request.op = "GET /project/:id/members"
  /\ response.status = 200
  /\ response.body.data = {}
  /\ handled.params.id.v \in 1..seq.project
  /\ handled.params.id.v \notin Ids(projects)
  /\ seq.member = 2
  /\ Cardinality(projectMembers) = 1

\* C21: a request under /api/v1 that no route of the API serves is answered
\* with the JSON error envelope and status 404, never with index.html; the
\* catch-all sends index.html only for paths outside /api/v1.
C21_ApiPathNeverGetsIndexHtml ==
  (request # Idle /\ Has(request, "path") /\ StartsWith(request.path, ApiPrefix)) =>
     /\ ~Has(response.body, "file")
     /\ response.status = 404
     /\ Has(response.body, "success")
     /\ response.body.success = FALSE

\* C22: in one window of the limiter at most RateLimitMax (100) requests of
\* an IP address get past the limiter; the requests up to the 100th are let
\* through, and every further request of the window is answered 429 by the
\* limiter, before the request logger, the body parser and the routes run
\* and without any access to the database.
C22_RateLimit ==
  [][/\ \A ip \in Ips : store'[ip].served <= RateLimitMax
     /\ (request = Idle /\ request' # Idle) =>
          LET ip == request'.ip IN
          /\ store'[ip].hits = store[ip].hits + 1
          /\ IF store[ip].hits >= RateLimitMax
             THEN /\ response'.status = 429
                  /\ store'[ip].served = store[ip].served
                  /\ ~handled'.reached
                  /\ \A i \in DOMAIN handled'.ran :
                       handled'.ran[i] \notin {"requestLogger", "express.json", "routes",
                                               "express.static"}
                  /\ db' = db
             ELSE /\ response'.status # 429
                  /\ store'[ip].served = store[ip].served + 1
                  /\ \E i \in DOMAIN handled'.ran : handled'.ran[i] = "routes"]_vars

\* The 101st request of an address in a window has been refused while the
\* other address is still served.
C22_Witness ==
  /\ request # Idle
  /\ response.status = 429
  /\ store[request.ip].hits = RateLimitMax + 1
  /\ store[request.ip].served = RateLimitMax
  /\ \E ip \in Ips : store[ip].hits < RateLimitMax

\* C23: on the Home page, when the database cannot be reached the page is
\* never in state 'connected', and once every request has settled it is in
\* state 'error' (the state that shows the DatabaseSetupGuide).
C23_HomeErrorWithoutDatabase ==
  (page.name = "Home" /\ ~page.database) =>
     /\ page.dbStatus # "connected"
     /\ (page.pending = {} => page.dbStatus = "error")

\* C24: on the Tasks page, while the PATCH request of a status change is in
\* flight the card of the task already shows the new status.
C24_StatusChangeIsOptimistic ==
  (page.name = "Tasks" /\ page.patch # JNull) =>
     page.tasks[page.patch.taskId] = page.patch.status

C25_TaskEnums ==
  [][/\ \A t \in tasks' : t.status \in TASK_STATUSES /\ t.priority \in PRIORITIES
     /\ (/\ request = Idle /\ request' # Idle
         /\ request'.op \in {"POST /task", "PUT /task/:id", "PATCH /task/:id/status"}
         /\ \/ /\ Has(request'.body, "status")
               /\ request'.body.status \notin {S(s) : s \in TASK_STATUSES}
            \/ /\ Has(request'.body, "priority")
               /\ request'.body.priority \notin {S(s) : s \in PRIORITIES})
        => (response'.status = 400 /\ db' = db /\ ~handled'.reached)]_vars

\* A status outside the enumeration has been refused for a task that exists
\* and whose id is valid.
C25_Witness ==
  /\ request # Idle
  /\ request.op = "PATCH /task/:id/status"
  /\ request.body = [status |-> S("BOGUS")]
  /\ \E t \in tasks : NumberFrom(request.params.id) = N(t.id)
  /\ response.status = 400

\* C27: a POST /task or PUT /task/:id whose INSERT or UPDATE has succeeded
\* is answered 201 or 200 with the task, never with the 500 of
\* getTaskWithRelations, whatever ran between the write and the re-read.
C27_WrittenTaskIsAnswered ==
  [][\A c \in 1..MaxClients :
       (pending[c] # JNull /\ pending[c].step = "written" /\ pending'[c] = JNull) =>
          /\ response'.status = pending[c].status
          /\ response'.body.success]_vars

\* C28: in the Prisma variant of the contact routes, a PUT or DELETE that
\* found the contact and then loses the race against a DELETE is answered
\* 404 (the winner 200); it is never answered 500.
C28_LoserIsAnswered404 ==
  [][\A c \in 1..MaxClients :
       (pending[c] # JNull /\ pending[c].step = "found" /\ pending'[c] = JNull) =>
          /\ response'.status # 500
          /\ (~\E k \in contacts : k.id = pending[c].id) => response'.status = 404]_vars

====
